---- MODULE Spec2Model ----
(***************************************************************************)
(* TerminalManager (src/src/main/services/AgentManager.ts, lines 195-445): *)
(* the pane session table, the tracked-pid registry and its on-disk file,  *)
(* the pseudo-terminal processes it spawns and the events it publishes.    *)
(*                                                                         *)
(* The JavaScript handlers run to completion on one thread, so each        *)
(* handler is one action.  persistTrackedPids is asynchronous: the payload *)
(* is computed when it is called, and its file-system steps (open with     *)
(* truncation, write, rename) are separate actions that interleave with    *)
(* the handlers and with the steps of the other persists in flight.        *)
(***************************************************************************)
EXTENDS Integers, Sequences, FiniteSets, Bags, TLC

\* ---------------------------------------------------------------- bounds
NumPanes == 2
MaxSpawns == 2
MaxChunks == 1
NumStale == 2
\* a handler runs when fewer than MaxInFlight persistTrackedPids calls are
\* in flight (the file system keeps up with the handlers to that extent)
MaxInFlight == 2
\* elements between the opening and the closing text of a registry file
MaxEntries == 4
\* timers of executeInSession pending per pane
MaxTimers == 1
\* runStructuredCommand calls, and output chunks per call
MaxRuns == 2
MaxRunChunks == 2
MaxRequests == 1
\* workspaces the list holds, tasks a workspace holds, and uuidv4() calls of a run
MaxWorkspaces == 2
MaxTasks == 3
MaxUuids == 2

Panes == 1..NumPanes
StalePids == 1..NumStale
ExitCodes == {0, 1}

\* pid of the i-th process spawned in this run; pids of this run are
\* distinct from each other and from the pids a previous run left behind
PidOf(i) == NumStale + i

VARIABLES
    phase,          \* position of the application: created, initializing, running, ...
    sessions,       \* Map<PaneId, TerminalSession>, in insertion order
    trackedPids,    \* Set<number>
    procs,          \* the pseudo-terminal processes spawned so far
    events,         \* per pane, what the emitter published: data(paneId, data), exit(paneId, exitCode)
    exitLast,       \* per pane: the exit event is the latest of {events, startSession calls}
    persists,       \* the persistTrackedPids calls in flight
    tmpFile,        \* `${stalePidPath}.tmp`
    pidFile,        \* stalePidPath
    unhandled,      \* a promise rejection nobody handles has happened
    staleStatus,    \* what the OS answers for a pid of the previous run
    swept,          \* the pids initialize() read from the registry file
    signalled,      \* stale pids that process.kill(pid) was delivered to
    atShutdown,     \* pids tracked at the moment shutdown() was called
    loaded,         \* what readTrackedPids() returned to initialize()
    call,           \* the latest sendInput / executeInSession / resize / timer callback and what it did to processes
    timers,         \* per pane, the setTimeout callbacks of executeInSession that have not run yet
    runs,           \* the runStructuredCommand calls: child process, CommandBlock, promise
    ipc,            \* the requests the renderer sent to the terminal:* handlers, with their outcome
    wm              \* the WorkspaceManager: its state and the two files it persists to

\* what the operations on sessions and the registry leave alone
aux == << call, timers, runs, ipc, wm >>

\* the session side of the TerminalManager
termVars == << phase, sessions, trackedPids, procs, events, exitLast, persists,
               tmpFile, pidFile, unhandled, staleStatus, swept, signalled, atShutdown, loaded >>

vars == << phase, sessions, trackedPids, procs, events, exitLast, persists,
           tmpFile, pidFile, unhandled, staleStatus, swept, signalled, atShutdown,
           loaded, aux >>

\* ------------------------------------------------------------ file model
\* A file's content is a sequence of tokens <<kind, value>>.  OpenWith(v)
\* stands for the text of an object up to and including the opening bracket
\* of its "pids" array, v telling which other fields the object carries
\* (0: "version": 1, as persistTrackedPids writes it; 1: another version
\* tag; 2: a field this version does not know); Close for the closing
\* bracket and brace; ArrOpen and ArrClose for a bracket on its own; Num(n)
\* for the integer literal n, Frac(n) for the literal n.5 and Junk for text
\* that is no number.  Adjacent array elements are separated by commas.
OpenWith(v) == << "{", v >>
Open == OpenWith(0)
Close == << "}", 0 >>
ArrOpen == << "[", 0 >>
ArrClose == << "]", 0 >>
Num(n) == << "n", n >>
Frac(n) == << "f", n >>
Junk == << "x", 0 >>

IsOpener(t) == t[1] \in {"{", "["}
IsCloser(t) == t[1] \in {"}", "]"}
IsNumber(t) == t[1] \in {"n", "f"}

Absent == [exists |-> FALSE, data |-> << >>]
File(content) == [exists |-> TRUE, data |-> content]

RECURSIVE SortedSeq(_)
SortedSeq(S) ==
    IF S = {} THEN << >>
    ELSE LET m == CHOOSE x \in S : \A y \in S : x <= y
         IN  << m >> \o SortedSeq(S \ {m})

NumTokens(s) == [k \in 1..Len(s) |-> Num(s[k])]

\* JSON.stringify({ version: 1, pids: [...this.trackedPids] }, null, 2).
\* trackedPids iterates in insertion order; pids are inserted at spawn and
\* PidOf grows with each spawn, so insertion order is ascending order.
Payload(S) == << Open >> \o NumTokens(SortedSeq(S)) \o << Close >>

\* a write of `bytes` at offset 0 of a file holding `old` (no truncation)
Overlay(bytes, old) ==
    IF Len(bytes) >= Len(old) THEN bytes
    ELSE bytes \o SubSeq(old, Len(bytes) + 1, Len(old))

SeqToSet(s) == { s[k] : k \in 1..Len(s) }

\* JSON.parse accepts the text and yields an object with a "pids" array of
\* numbers, an array of numbers, or one number
IsObject(d) ==
    /\ Len(d) >= 2
    /\ d[1][1] = "{"
    /\ d[Len(d)] = Close
    /\ \A k \in 2..(Len(d) - 1) : IsNumber(d[k])

IsArray(d) ==
    /\ Len(d) >= 2
    /\ d[1] = ArrOpen
    /\ d[Len(d)] = ArrClose
    /\ \A k \in 2..(Len(d) - 1) : IsNumber(d[k])

IsScalar(d) == Len(d) = 1 /\ IsNumber(d[1])

WellFormed(d) == IsObject(d) \/ IsArray(d) \/ IsScalar(d)

\* Number.isInteger(pid) && pid > 0, on a parsed JSON number
IsValidPid(t) == t[1] = "n" /\ t[2] > 0

Values(d) == [k \in 1..Len(d) |-> d[k][2]]

\* Number.parseInt(token.trim(), 10): the integer the leading digits spell
\* (so 1 for the text 1.5), << >> for NaN
parseInt(t) == IF IsNumber(t) THEN << t[2] >> ELSE << >>

RECURSIVE Dedup(_, _)
Dedup(s, seen) ==
    IF s = << >> THEN << >>
    ELSE IF Head(s) \in seen THEN Dedup(Tail(s), seen)
    ELSE << Head(s) >> \o Dedup(Tail(s), seen \cup {Head(s)})

\* the comma-separated pieces of every match of /"pids"\s*:\s*\[([^\]]*)\]/g,
\* as far as parseInt can read them.  A match runs from an object's opening
\* text to the next closing bracket and scanning resumes after that bracket;
\* an opener inside a match is text in front of the element that follows it,
\* which parseInt then reads as NaN.
RECURSIVE MatchedTokens(_, _)
MatchedTokens(d, at) ==
    IF d = << >> THEN << >>
    ELSE IF at = "out"
         THEN IF Head(d)[1] = "{" /\ \E k \in 2..Len(d) : IsCloser(d[k])
              THEN MatchedTokens(Tail(d), "in")
              ELSE MatchedTokens(Tail(d), "out")
         ELSE IF IsCloser(Head(d)) THEN MatchedTokens(Tail(d), "out")
         ELSE IF IsOpener(Head(d)) THEN MatchedTokens(Tail(d), "glued")
         ELSE IF at = "glued" THEN MatchedTokens(Tail(d), "in")
         ELSE << Head(d) >> \o MatchedTokens(Tail(d), "in")

RECURSIVE Parsed(_)
Parsed(ts) == IF ts = << >> THEN << >> ELSE parseInt(Head(ts)) \o Parsed(Tail(ts))

extractPidsFromCorruptedPayload(d) ==
    Dedup(SelectSeq(Parsed(MatchedTokens(d, "out")), LAMBDA v : v > 0), {})

\* readTrackedPids that gives up on a SyntaxError instead of scanning
readTrackedPids_NoScan(f) ==
    IF ~f.exists THEN << >>
    ELSE IF f.data = << >> THEN << >>
    ELSE IF IsObject(f.data) \/ IsArray(f.data)
         THEN Values(SelectSeq(SubSeq(f.data, 2, Len(f.data) - 1), IsValidPid))
    ELSE << >>

\* readTrackedPids: ENOENT and the blank file give []; what JSON.parse
\* accepts is filtered, not deduplicated; a SyntaxError leads to the scan
readTrackedPids(f) ==
    IF ~f.exists THEN << >>
    ELSE IF f.data = << >> THEN << >>
    ELSE IF IsObject(f.data) \/ IsArray(f.data)
         THEN Values(SelectSeq(SubSeq(f.data, 2, Len(f.data) - 1), IsValidPid))
    ELSE IF IsScalar(f.data) THEN << >>
    ELSE extractPidsFromCorruptedPayload(f.data)

\* ------------------------------------------------------------------ text
\* A text is a sequence of strings whose concatenation it is; commands and
\* inputs are sequences of single characters.  Ascii lists the printable
\* characters in the order of their codes, from 32 ("grave" is character 96).
Ascii ==
    << " ", "!", "\"", "#", "$", "%", "&", "'", "(", ")", "*", "+", ",", "-", ".", "/",
       "0", "1", "2", "3", "4", "5", "6", "7", "8", "9", ":", ";", "<", "=", ">", "?",
       "@", "A", "B", "C", "D", "E", "F", "G", "H", "I", "J", "K", "L", "M", "N", "O",
       "P", "Q", "R", "S", "T", "U", "V", "W", "X", "Y", "Z", "[", "\\", "]", "^", "_",
       "grave", "a", "b", "c", "d", "e", "f", "g", "h", "i", "j", "k", "l", "m", "n", "o",
       "p", "q", "r", "s", "t", "u", "v", "w", "x", "y", "z", "{", "|", "}", "~" >>

CR == "\r"
ShellTypes == {"powershell", "cmd"}

CodeOf == [c \in { Ascii[k] : k \in 1..Len(Ascii) } |-> 31 + (CHOOSE k \in 1..Len(Ascii) : Ascii[k] = c)]
Code(c) ==
    IF c = CR THEN 13
    ELSE IF c = "\n" THEN 10
    ELSE IF c = "\t" THEN 9
    ELSE CodeOf[c]

IsUpper(c) == Code(c) \in 65..90
IsLetter(c) == IsUpper(c) \/ Code(c) \in 97..122
IsWord(c) == IsLetter(c) \/ Code(c) \in 48..57 \/ c = "_"
IsSpace(c) == c \in {" ", "\t", "\n", CR}
ToLower(c) == IF IsUpper(c) THEN Ascii[Code(c) + 1] ELSE c

\* String.prototype.trim
RECURSIVE trim(_)
trim(t) ==
    IF t = << >> THEN t
    ELSE IF IsSpace(Head(t)) THEN trim(Tail(t))
    ELSE IF IsSpace(t[Len(t)]) THEN trim(SubSeq(t, 1, Len(t) - 1))
    ELSE t

\* the character classes [A-Za-z], - and \s
InClass(cls, c) ==
    IF cls = "letter" THEN IsLetter(c)
    ELSE IF cls = "hyphen" THEN c = "-"
    ELSE IsSpace(c)

\* how many characters from position k on are of the class
RECURSIVE Span(_, _, _)
Span(t, k, cls) == IF k <= Len(t) /\ InClass(cls, t[k]) THEN 1 + Span(t, k + 1, cls) ELSE 0

\* /^([A-Za-z]+-+[A-Za-z]+)/
StartsVerbNoun(t) ==
    LET a == Span(t, 1, "letter")
        h == Span(t, a + 1, "hyphen")
    IN  a >= 1 /\ h >= 1 /\ Span(t, a + h + 1, "letter") >= 1

\* /^\$[A-Za-z_][A-Za-z0-9_]*/
StartsVariable(t) == Len(t) >= 2 /\ t[1] = "$" /\ (IsLetter(t[2]) \/ t[2] = "_")

\* /\$\w+/
HasVariable(t) == \E k \in 1..(Len(t) - 1) : t[k] = "$" /\ IsWord(t[k + 1])

\* /\|\s*name\b/i, name being written in lower case
PipesInto(t, name) ==
    \E k \in 1..Len(t) :
        /\ t[k] = "|"
        /\ LET j == k + 1 + Span(t, k + 1, "space")
               e == j + Len(name) - 1
           IN  /\ e <= Len(t)
               /\ \A i \in 1..Len(name) : ToLower(t[j + i - 1]) = name[i]
               /\ (e = Len(t) \/ ~IsWord(t[e + 1]))

WhereObject == << "w", "h", "e", "r", "e", "-", "o", "b", "j", "e", "c", "t" >>
ForEachObject == << "f", "o", "r", "e", "a", "c", "h", "-", "o", "b", "j", "e", "c", "t" >>

looksLikePowerShellCommand(command) ==
    LET trimmed == trim(command)
    IN  IF trimmed = << >> THEN FALSE
        ELSE \/ StartsVerbNoun(trimmed)
             \/ StartsVariable(trimmed)
             \/ HasVariable(trimmed)
             \/ PipesInto(trimmed, WhereObject)
             \/ PipesInto(trimmed, ForEachObject)

\* Buffer.from(command, 'utf16le'): two bytes per character, low byte first
RECURSIVE utf16le(_)
utf16le(t) == IF t = << >> THEN << >> ELSE << Code(Head(t)), 0 >> \o utf16le(Tail(t))

\* the base64 alphabet: A-Z, a-z, 0-9, +, /
Base64Char(n) ==
    IF n < 26 THEN Ascii[n + 34]
    ELSE IF n < 52 THEN Ascii[n + 40]
    ELSE IF n < 62 THEN Ascii[n - 35]
    ELSE IF n = 62 THEN "+" ELSE "/"

\* buffer.toString('base64'): three bytes give four characters, padded with =
RECURSIVE base64(_)
base64(b) ==
    IF b = << >> THEN << >>
    ELSE IF Len(b) = 1
         THEN << Base64Char(b[1] \div 4), Base64Char((b[1] % 4) * 16), "=", "=" >>
    ELSE IF Len(b) = 2
         THEN << Base64Char(b[1] \div 4), Base64Char((b[1] % 4) * 16 + b[2] \div 16),
                 Base64Char((b[2] % 16) * 4), "=" >>
    ELSE << Base64Char(b[1] \div 4), Base64Char((b[1] % 4) * 16 + b[2] \div 16),
            Base64Char((b[2] % 16) * 4 + b[3] \div 64), Base64Char(b[3] % 64) >>
            \o base64(SubSeq(b, 4, Len(b)))

buildPowerShellProxyCommand(command) ==
    << "powershell.exe -NoProfile -ExecutionPolicy Bypass -EncodedCommand " >>
        \o base64(utf16le(command))

\* the commands a caller passes to executeInSession
Commands ==
    { << "d", "i", "r" >>,
      << "G", "e", "t", "-", "I", "t", "e", "m" >>,
      << "m", "y", "-", "a", "p", "p", ".", "e", "x", "e" >>,
      << "g", "i", "t", " ", "-", "v" >>,
      << " ", "$", "x" >>,
      << "e", "c", "h", "o", " ", "$", "1" >>,
      << "a", " ", "|", " ", "w", "h", "e", "r", "e", "-", "o", "b", "j", "e", "c", "t", " ", "b" >>,
      << "b", "|", "F", "o", "r", "E", "a", "c", "h", "-", "O", "b", "j", "e", "c", "t", "s" >>,
      << "$" >> }

\* what a caller passes to sendInput
Inputs == { << "l", "s", CR >>, << >> }

\* what a caller passes to resize: << cols, rows >>
Sizes == { << 80, 24 >>, << 120, 40 >> }

\* ------------------------------------------------------------- sessions
\* the Map<PaneId, TerminalSession>: a sequence of entries in insertion order
MapHas(m, p) == \E k \in 1..Len(m) : m[k].paneId = p
MapGet(m, p) == m[CHOOSE k \in 1..Len(m) : m[k].paneId = p]
\* delete that removes the oldest entry, whatever its key
MapDelete_Oldest(m, p) == IF m = << >> THEN m ELSE Tail(m)
MapDelete(m, p) == SelectSeq(m, LAMBDA e : e.paneId # p)
MapSet(m, p, e) ==
    IF MapHas(m, p)
    THEN [k \in 1..Len(m) |-> IF m[k].paneId = p THEN e ELSE m[k]]
    ELSE Append(m, e)

\* a persistTrackedPids call: its payload is fixed when it is called
NewPersist(S, who) == [payload |-> Payload(S), pc |-> "open", fd |-> "none", owner |-> who]

\* the calls in flight are a bag: they differ only in payload, position,
\* descriptor and caller
AddPersist(B, S, who) == B (+) SetToBag({NewPersist(S, who)})
InFlight(B) == BagCardinality(B)

\* --------------------------------------------------------------- Init
NoCall == [op |-> "none", paneId |-> 0, arg |-> << >>, threw |-> FALSE, io |-> << >>]

\* the registry file a previous run may have left behind
StaleFiles ==
    {Absent, File(<< >>)} \cup { File(Payload(S)) : S \in SUBSET StalePids }

StatusKinds == {"running", "gone", "denied", "error"}

\* JavaScript's null
Null == "null"

\* a file of the user data directory that does not exist
NoFile == [exists |-> FALSE, text |-> "", value |-> [version |-> 0, activeWorkspaceId |-> Null, workspaces |-> << >>]]

\* new WorkspaceManager(userDataDir), over a directory that holds these two files.
\* uuids counts the uuidv4() calls so far; given is history: per workspace, the task
\* list its tasks were last normalized from
WorkspaceManager(stateFile, backupFile) ==
    [ activeWorkspaceId |-> Null, workspaces |-> << >>,
      statePath |-> stateFile, backupPath |-> backupFile, uuids |-> 0, given |-> << >> ]

InitCommon ==
    /\ phase = "created"
    /\ sessions = << >>
    /\ trackedPids = {}
    /\ procs = << >>
    /\ events = [p \in Panes |-> << >>]
    /\ exitLast = [p \in Panes |-> FALSE]
    /\ persists = EmptyBag
    /\ tmpFile = Absent
    /\ unhandled = FALSE
    /\ swept = {}
    /\ signalled = {}
    /\ atShutdown = {}
    /\ loaded = << >>
    /\ call = NoCall
    /\ timers = [p \in Panes |-> 0]
    /\ runs = << >>
    /\ ipc = << >>
    /\ wm = WorkspaceManager(NoFile, NoFile)

\* a run after a crash that left one live process behind
Init ==
    /\ InitCommon
    /\ pidFile = File(Payload({1}))
    /\ staleStatus = [q \in StalePids |-> IF q = 1 THEN "running" ELSE "gone"]

\* any registry file, any answer of the OS for each pid it lists
InitRecovery ==
    /\ InitCommon
    /\ pidFile \in StaleFiles
    /\ staleStatus \in [StalePids -> StatusKinds]

\* registry files of every shape: well-formed with any other fields, cut
\* short, followed by a second payload or by garbage, with elements that
\* are duplicated, out of range, fractional or no numbers at all
FileHeads == { << >>, << Open >>, << OpenWith(1) >>, << OpenWith(2) >>, << ArrOpen >> }
FileTails == { << >>, << Close >>, << ArrClose >>, << Close, Junk >>, << Close >> \o Payload({NumStale}) }
Elements == { Num(n) : n \in (0 - 1)..NumStale } \cup { Frac(1), Junk, Open }

SeqsUpTo(S, n) == UNION { [1..k -> S] : k \in 0..n }

LoadFiles ==
    {Absent} \cup
    { File(h \o b \o t) : h \in FileHeads, b \in SeqsUpTo(Elements, MaxEntries), t \in FileTails }

InitLoad ==
    /\ InitCommon
    /\ pidFile \in LoadFiles
    /\ staleStatus = [q \in StalePids |-> "running"]

\* the application at work: initialize() has finished, each pane of S has a
\* session of the shell sh[p], started in the order of the panes, and every
\* persist has completed
SessionsOf(S, sh) ==
    LET ps == SortedSeq(S) IN [k \in 1..Len(ps) |-> [paneId |-> ps[k], proc |-> k, shell |-> sh[ps[k]]]]

ProcsOf(S) ==
    LET ps == SortedSeq(S)
    IN  [k \in 1..Len(ps) |-> [paneId |-> ps[k], state |-> "alive", killed |-> FALSE, chunks |-> 0, exitCode |-> << >>]]

InitInput ==
    /\ \E S \in SUBSET Panes : \E sh \in [S -> ShellTypes] :
          /\ sessions = SessionsOf(S, sh)
          /\ procs = ProcsOf(S)
          /\ trackedPids = { PidOf(k) : k \in 1..Cardinality(S) }
          /\ pidFile = File(Payload({ PidOf(k) : k \in 1..Cardinality(S) }))
    /\ phase = "running"
    /\ events = [p \in Panes |-> << >>]
    /\ exitLast = [p \in Panes |-> FALSE]
    /\ persists = EmptyBag
    /\ tmpFile = Absent
    /\ unhandled = FALSE
    /\ staleStatus = [q \in StalePids |-> "gone"]
    /\ swept = {}
    /\ signalled = {}
    /\ atShutdown = {}
    /\ loaded = << >>
    /\ call = NoCall
    /\ timers = [p \in Panes |-> 0]
    /\ runs = << >>
    /\ ipc = << >>
    /\ wm = WorkspaceManager(NoFile, NoFile)

\* ------------------------------------------------------- registry (memory)
\* trackPid / untrackPid: guard, mutate the set, start a persist (not awaited)
trackPid(st, pid) ==
    IF pid <= 0 THEN st
    ELSE LET S == st.tracked \cup {pid}
         IN  [tracked |-> S, persists |-> AddPersist(st.persists, S, "mutation")]

untrackPid(st, pid) ==
    IF pid <= 0 THEN st
    ELSE LET S == st.tracked \ {pid}
         IN  [tracked |-> S, persists |-> AddPersist(st.persists, S, "mutation")]

Registry == [tracked |-> trackedPids, persists |-> persists]

\* ------------------------------------------------------------- startup
\* cleanupStaleSessions without the liveness probe: every listed pid is signalled
RECURSIVE cleanupStaleSessions_NoProbe(_, _)
cleanupStaleSessions_NoProbe(pids, sig) ==
    IF pids = << >> THEN sig
    ELSE cleanupStaleSessions_NoProbe(Tail(pids), sig \cup {Head(pids)})

\* cleanupStaleSessions that stops at the first pid whose signal fails with
\* an error other than ESRCH and EPERM
RECURSIVE cleanupStaleSessions_AbortOnError(_, _)
cleanupStaleSessions_AbortOnError(pids, sig) ==
    IF pids = << >> THEN sig
    ELSE LET pid == Head(pids)
         IN  IF staleStatus[pid] = "running"
             THEN cleanupStaleSessions_AbortOnError(Tail(pids), sig \cup {pid})
             ELSE IF staleStatus[pid] = "error" THEN sig
             ELSE cleanupStaleSessions_AbortOnError(Tail(pids), sig)

\* cleanupStaleSessions: the loop over the pids read from the file; every
\* failure of process.kill is caught inside the loop body
RECURSIVE cleanupStaleSessions(_, _)
cleanupStaleSessions(pids, sig) ==
    IF pids = << >> THEN sig
    ELSE LET pid == Head(pids)
         IN  IF staleStatus[pid] = "running"
             THEN cleanupStaleSessions(Tail(pids), sig \cup {pid})
             ELSE cleanupStaleSessions(Tail(pids), sig)

\* initialize(): the sweep, then persistTrackedPids() of the (empty) set
Initialize ==
    /\ phase = "created"
    /\ swept' = SeqToSet(readTrackedPids(pidFile))
    /\ signalled' = cleanupStaleSessions(readTrackedPids(pidFile), signalled)
    /\ persists' = AddPersist(persists, trackedPids, "initialize")
    /\ phase' = "initializing"
    /\ loaded' = readTrackedPids(pidFile)
    /\ UNCHANGED aux
    /\ UNCHANGED << sessions, trackedPids, procs, events, exitLast, tmpFile,
                    pidFile, unhandled, staleStatus, atShutdown >>

\* ------------------------------------------------- persistTrackedPids steps
Replace(B, old, new) == (B (-) SetToBag({old})) (+) SetToBag({new})

\* fs.writeFile(tempPath, ...) opens the path with O_CREAT | O_TRUNC
PersistOpen(r) ==
    /\ BagIn(r, persists)
    /\ r.pc = "open"
    /\ tmpFile' = File(<< >>)
    /\ persists' = Replace(persists, r, [r EXCEPT !.pc = "write", !.fd = "tmp"])
    /\ UNCHANGED aux
    /\ UNCHANGED << loaded, phase, sessions, trackedPids, procs, events, exitLast,
                    pidFile, unhandled, staleStatus, swept, signalled, atShutdown >>

\* ... and writes the payload through its descriptor, wherever the file
\* it opened has been renamed to in the meantime; the payload is not used
\* after the write
PersistWrite(r) ==
    /\ BagIn(r, persists)
    /\ r.pc = "write"
    /\ tmpFile' = IF r.fd = "tmp" THEN File(Overlay(r.payload, tmpFile.data)) ELSE tmpFile
    /\ pidFile' = IF r.fd = "pid" THEN File(Overlay(r.payload, pidFile.data)) ELSE pidFile
    /\ persists' = Replace(persists, r, [r EXCEPT !.pc = "rename", !.fd = "none", !.payload = << >>])
    /\ UNCHANGED aux
    /\ UNCHANGED << loaded, phase, sessions, trackedPids, procs, events, exitLast,
                    unhandled, staleStatus, swept, signalled, atShutdown >>

\* descriptors follow the file they were opened on: the temporary file
\* becomes the registry file, the old registry file is unlinked (what is
\* written to an unlinked file is never read)
AfterRename(r) ==
    IF r.fd = "tmp" THEN [r EXCEPT !.fd = "pid"]
    ELSE IF r.fd = "pid" THEN [r EXCEPT !.fd = "dead", !.payload = << >>]
    ELSE r

RECURSIVE Copies(_, _, _)
Copies(B, S, y) ==
    IF S = {} THEN 0
    ELSE LET x == CHOOSE z \in S : TRUE
         IN  (IF AfterRename(x) = y THEN B[x] ELSE 0) + Copies(B, S \ {x}, y)

RenameAll(B) ==
    [y \in { AfterRename(x) : x \in DOMAIN B } |-> Copies(B, DOMAIN B, y)]

Settled(ph, r, ok) ==
    IF r.owner = "initialize" THEN (IF ok THEN "running" ELSE "initFailed")
    ELSE IF r.owner = "shutdown" THEN (IF ok THEN "stopped" ELSE "shutdownFailed")
    ELSE ph

\* fs.rename(tempPath, stalePidPath) succeeds: the persist resolves
PersistRename(r) ==
    /\ BagIn(r, persists)
    /\ r.pc = "rename"
    /\ tmpFile.exists
    /\ pidFile' = tmpFile
    /\ tmpFile' = Absent
    /\ persists' = RenameAll(persists (-) SetToBag({r}))
    /\ phase' = Settled(phase, r, TRUE)
    /\ UNCHANGED aux
    /\ UNCHANGED << loaded, sessions, trackedPids, procs, events, exitLast,
                    unhandled, staleStatus, swept, signalled, atShutdown >>

\* fs.rename rejects with ENOENT: another persist renamed the file away.
\* trackPid/untrackPid discard the promise (void), index.ts discards the
\* promise of shutdown(); bootstrap() awaits initialize() and fails with it
PersistRenameFails(r) ==
    /\ BagIn(r, persists)
    /\ r.pc = "rename"
    /\ ~tmpFile.exists
    /\ persists' = persists (-) SetToBag({r})
    /\ unhandled' = TRUE
    /\ phase' = Settled(phase, r, FALSE)
    /\ UNCHANGED aux
    /\ UNCHANGED << loaded, sessions, trackedPids, procs, events, exitLast, tmpFile,
                    pidFile, staleStatus, swept, signalled, atShutdown >>

\* ------------------------------------------------------------- sessions
\* session.process.kill()
Kill(ps, i) == [ps EXCEPT ![i].killed = TRUE]

\* stopSession that forgets untrackPid
stopSession_NoUntrack(st, p) ==
    IF ~MapHas(st.sessions, p) THEN st
    ELSE LET i == MapGet(st.sessions, p).proc
         IN  [sessions |-> MapDelete(st.sessions, p),
              procs    |-> Kill(st.procs, i),
              tracked  |-> st.tracked,
              persists |-> st.persists]

\* stopSession(paneId) as a function of the state it works on
stopSession(st, p) ==
    IF ~MapHas(st.sessions, p) THEN st
    ELSE LET i == MapGet(st.sessions, p).proc
             r == untrackPid([tracked |-> st.tracked, persists |-> st.persists], PidOf(i))
         IN  [sessions |-> MapDelete(st.sessions, p),
              procs    |-> Kill(st.procs, i),
              tracked  |-> r.tracked,
              persists |-> r.persists]

Whole == [sessions |-> sessions, procs |-> procs, tracked |-> trackedPids, persists |-> persists]

StopSession(p) ==
    /\ phase = "running"
    /\ LET r == stopSession(Whole, p)
       IN  /\ sessions' = r.sessions
           /\ procs' = r.procs
           /\ trackedPids' = r.tracked
           /\ persists' = r.persists
           /\ InFlight(persists) < MaxInFlight
    /\ UNCHANGED aux
    /\ UNCHANGED << loaded, phase, events, exitLast, tmpFile, pidFile, unhandled,
                    staleStatus, swept, signalled, atShutdown >>

\* the shells Spec starts sessions with: the shell only selects the file and
\* the arguments of pty.spawn (getShellCommand) and the text executeInSession
\* writes, so the life of a session does not depend on it
SpawnShells == {"powershell"}

\* startSession that does not stop the pane's session first
StartSession_NoStop(p, sh) ==
    /\ phase = "running"
    /\ Len(procs) < MaxSpawns
    /\ LET i == Len(procs) + 1
           t == trackPid(Registry, PidOf(i))
       IN  /\ procs' = Append(procs, [paneId |-> p, state |-> "alive", killed |-> FALSE, chunks |-> 0, exitCode |-> << >>])
           /\ sessions' = MapSet(sessions, p, [paneId |-> p, proc |-> i, shell |-> sh])
           /\ trackedPids' = t.tracked
           /\ persists' = t.persists
           /\ InFlight(persists) < MaxInFlight
    /\ exitLast' = [exitLast EXCEPT ![p] = FALSE]
    /\ UNCHANGED aux
    /\ UNCHANGED << loaded, phase, events, tmpFile, pidFile, unhandled, staleStatus,
                    swept, signalled, atShutdown >>

\* startSession: stop the pane's session, spawn, wire the callbacks, store
\* the session, track the pid
startSession(p, sh) ==
    /\ phase = "running"
    /\ Len(procs) < MaxSpawns
    /\ LET r == stopSession(Whole, p)
           i == Len(procs) + 1
           t == trackPid([tracked |-> r.tracked, persists |-> r.persists], PidOf(i))
       IN  /\ procs' = Append(r.procs, [paneId |-> p, state |-> "alive", killed |-> FALSE, chunks |-> 0, exitCode |-> << >>])
           /\ sessions' = MapSet(r.sessions, p, [paneId |-> p, proc |-> i, shell |-> sh])
           /\ trackedPids' = t.tracked
           /\ persists' = t.persists
           /\ InFlight(persists) < MaxInFlight
    /\ exitLast' = [exitLast EXCEPT ![p] = FALSE]
    /\ UNCHANGED << loaded, phase, events, tmpFile, pidFile, unhandled, staleStatus,
                    swept, signalled, atShutdown >>

\* a caller inside the main process starts a session
StartSession(p, sh) ==
    /\ startSession(p, sh)
    /\ UNCHANGED aux

\* startSession when pty.spawn throws: the pane's session has been stopped,
\* nothing is stored or tracked, the exception leaves startSession
startSessionThrows(p) ==
    /\ phase = "running"
    /\ InFlight(persists) < MaxInFlight
    /\ LET r == stopSession(Whole, p)
       IN  /\ sessions' = r.sessions
           /\ procs' = r.procs
           /\ trackedPids' = r.tracked
           /\ persists' = r.persists
    /\ UNCHANGED << loaded, phase, events, exitLast, tmpFile, pidFile, unhandled,
                    staleStatus, swept, signalled, atShutdown >>

StartSessionThrows(p) ==
    /\ startSessionThrows(p)
    /\ UNCHANGED aux

\* this.emitter.emit(kind, paneId, value): listeners see the events of a
\* pane in the order of the calls.  A data value is <<process, chunk number>>;
\* an exit value is <<process, exit code>> (the process is not part of the
\* published event, it records which callback published it)
emit(ev, kind, p, value) == [ev EXCEPT ![p] = Append(@, [kind |-> kind, paneId |-> p, value |-> value])]

\* proc.onData((data) => this.emitter.emit('data', input.paneId, data))
ProcData(i) ==
    /\ i \in 1..Len(procs)
    /\ procs[i].state = "alive"
    /\ procs[i].chunks < MaxChunks
    /\ procs' = [procs EXCEPT ![i].chunks = @ + 1]
    /\ events' = emit(events, "data", procs[i].paneId, << i, procs[i].chunks + 1 >>)
    /\ UNCHANGED aux
    /\ UNCHANGED << loaded, phase, sessions, trackedPids, exitLast, persists, tmpFile,
                    pidFile, unhandled, staleStatus, swept, signalled, atShutdown >>

\* proc.onExit that emits the exit event and leaves the table and the
\* registry alone
ProcExit_EmitOnly(i, code) ==
    /\ i \in 1..Len(procs)
    /\ procs[i].state = "alive"
    /\ phase \in {"running", "shuttingDown", "stopped", "shutdownFailed"}
    /\ events' = emit(events, "exit", procs[i].paneId, << i, code >>)
    /\ exitLast' = [exitLast EXCEPT ![procs[i].paneId] = TRUE]
    /\ procs' = [procs EXCEPT ![i].state = "exited", ![i].exitCode = << code >>]
    /\ UNCHANGED aux
    /\ UNCHANGED << loaded, phase, sessions, trackedPids, persists, tmpFile, pidFile,
                    unhandled, staleStatus, swept, signalled, atShutdown >>

\* proc.onExit: emit exit, delete the pane's entry, untrack the pid
ProcExit(i, code) ==
    /\ i \in 1..Len(procs)
    /\ procs[i].state = "alive"
    /\ phase \in {"running", "shuttingDown", "stopped", "shutdownFailed"}
    /\ LET p == procs[i].paneId
           r == untrackPid(Registry, PidOf(i))
       IN  /\ events' = emit(events, "exit", p, << i, code >>)
           /\ exitLast' = [exitLast EXCEPT ![p] = TRUE]
           /\ sessions' = MapDelete(sessions, p)
           /\ trackedPids' = r.tracked
           /\ persists' = r.persists
           /\ InFlight(persists) < MaxInFlight
    /\ procs' = [procs EXCEPT ![i].state = "exited", ![i].exitCode = << code >>]
    /\ UNCHANGED aux
    /\ UNCHANGED << loaded, phase, tmpFile, pidFile, unhandled, staleStatus, swept, signalled, atShutdown >>

\* shutdown(): stop every session in the order of the map's keys, clear the
\* set, persist it
RECURSIVE StopAll(_, _)
StopAll(st, keys) ==
    IF keys = << >> THEN st
    ELSE StopAll(stopSession(st, Head(keys)), Tail(keys))

Keys(m) == [k \in 1..Len(m) |-> m[k].paneId]

Shutdown ==
    /\ phase = "running"
    /\ LET r == StopAll(Whole, Keys(sessions))
       IN  /\ sessions' = r.sessions
           /\ procs' = r.procs
           /\ trackedPids' = {}
           /\ persists' = AddPersist(r.persists, {}, "shutdown")
           /\ InFlight(persists) < MaxInFlight
    /\ atShutdown' = trackedPids
    /\ phase' = "shuttingDown"
    /\ UNCHANGED aux
    /\ UNCHANGED << loaded, events, exitLast, tmpFile, pidFile, unhandled, staleStatus, swept, signalled >>

\* ------------------------------------------------------- input and size
\* what a call did to processes: process.write(data), process.resize(cols, rows)
Write(i, data) == [proc |-> i, kind |-> "write", data |-> data]
Size(i, size) == [proc |-> i, kind |-> "resize", data |-> size]
Called(op, p, arg, threw, io) == [op |-> op, paneId |-> p, arg |-> arg, threw |-> threw, io |-> io]

\* sendInput: throws without a session, else one write of the input
SendInput(p, input) ==
    /\ phase = "running"
    /\ call' = IF ~MapHas(sessions, p)
               THEN Called("sendInput", p, input, TRUE, << >>)
               ELSE Called("sendInput", p, input, FALSE, << Write(MapGet(sessions, p).proc, input) >>)
    /\ UNCHANGED << phase, sessions, trackedPids, procs, events, exitLast, persists, tmpFile,
                    pidFile, unhandled, staleStatus, swept, signalled, atShutdown, loaded, timers, runs, ipc, wm >>

\* executeInSession that proxies what looks like PowerShell for every shell
ExecuteInSession_AnyShell(p, command, forceSubmit) ==
    /\ phase = "running"
    /\ forceSubmit => timers[p] < MaxTimers
    /\ IF ~MapHas(sessions, p)
       THEN /\ call' = Called("executeInSession", p, command, TRUE, << >>)
            /\ timers' = timers
       ELSE LET session == MapGet(sessions, p)
                nextCommand == IF looksLikePowerShellCommand(command)
                               THEN buildPowerShellProxyCommand(command)
                               ELSE command
            IN  /\ call' = Called("executeInSession", p, command, FALSE,
                                  << Write(session.proc, nextCommand), Write(session.proc, << CR >>) >>)
                /\ timers' = IF forceSubmit THEN [timers EXCEPT ![p] = @ + 1] ELSE timers
    /\ UNCHANGED << phase, sessions, trackedPids, procs, events, exitLast, persists, tmpFile,
                    pidFile, unhandled, staleStatus, swept, signalled, atShutdown, loaded, runs, ipc, wm >>

\* executeInSession that arms the timer before it looks the session up
ExecuteInSession_TimerFirst(p, command, forceSubmit) ==
    /\ phase = "running"
    /\ forceSubmit => timers[p] < MaxTimers
    /\ timers' = IF forceSubmit THEN [timers EXCEPT ![p] = @ + 1] ELSE timers
    /\ call' = IF ~MapHas(sessions, p)
               THEN Called("executeInSession", p, command, TRUE, << >>)
               ELSE LET session == MapGet(sessions, p)
                        nextCommand == IF session.shell = "cmd" /\ looksLikePowerShellCommand(command)
                                       THEN buildPowerShellProxyCommand(command)
                                       ELSE command
                    IN  Called("executeInSession", p, command, FALSE,
                               << Write(session.proc, nextCommand), Write(session.proc, << CR >>) >>)
    /\ UNCHANGED << phase, sessions, trackedPids, procs, events, exitLast, persists, tmpFile,
                    pidFile, unhandled, staleStatus, swept, signalled, atShutdown, loaded, runs, ipc, wm >>

\* executeInSession that sends the command and the carriage return in one write
ExecuteInSession_OneWrite(p, command, forceSubmit) ==
    /\ phase = "running"
    /\ forceSubmit => timers[p] < MaxTimers
    /\ IF ~MapHas(sessions, p)
       THEN /\ call' = Called("executeInSession", p, command, TRUE, << >>)
            /\ timers' = timers
       ELSE LET session == MapGet(sessions, p)
                nextCommand == IF session.shell = "cmd" /\ looksLikePowerShellCommand(command)
                               THEN buildPowerShellProxyCommand(command)
                               ELSE command
            IN  /\ call' = Called("executeInSession", p, command, FALSE,
                                  << Write(session.proc, nextCommand \o << CR >>) >>)
                /\ timers' = IF forceSubmit THEN [timers EXCEPT ![p] = @ + 1] ELSE timers
    /\ UNCHANGED << phase, sessions, trackedPids, procs, events, exitLast, persists, tmpFile,
                    pidFile, unhandled, staleStatus, swept, signalled, atShutdown, loaded, runs, ipc, wm >>

\* executeInSession: throws without a session; else writes the command, or
\* its proxy when a cmd session is given what looks like PowerShell, then
\* the carriage return, and with forceSubmit arms a timer of 25 ms
ExecuteInSession(p, command, forceSubmit) ==
    /\ phase = "running"
    /\ forceSubmit => timers[p] < MaxTimers
    /\ IF ~MapHas(sessions, p)
       THEN /\ call' = Called("executeInSession", p, command, TRUE, << >>)
            /\ timers' = timers
       ELSE LET session == MapGet(sessions, p)
                nextCommand == IF session.shell = "cmd" /\ looksLikePowerShellCommand(command)
                               THEN buildPowerShellProxyCommand(command)
                               ELSE command
            IN  /\ call' = Called("executeInSession", p, command, FALSE,
                                  << Write(session.proc, nextCommand), Write(session.proc, << CR >>) >>)
                /\ timers' = IF forceSubmit THEN [timers EXCEPT ![p] = @ + 1] ELSE timers
    /\ UNCHANGED << phase, sessions, trackedPids, procs, events, exitLast, persists, tmpFile,
                    pidFile, unhandled, staleStatus, swept, signalled, atShutdown, loaded, runs, ipc, wm >>

\* the timer's callback: one more carriage return to the session the pane
\* has now, nothing when it has none.  The write is not guarded: when it
\* fails (delivered = FALSE), the exception leaves the callback
SubmitTimer(p, delivered) ==
    /\ timers[p] > 0
    /\ ~MapHas(sessions, p) => delivered
    /\ timers' = [timers EXCEPT ![p] = @ - 1]
    /\ call' = IF ~MapHas(sessions, p) THEN Called("timer", p, << >>, FALSE, << >>)
               ELSE IF delivered THEN Called("timer", p, << >>, FALSE, << Write(MapGet(sessions, p).proc, << CR >>) >>)
               ELSE Called("timer", p, << >>, TRUE, << >>)
    /\ UNCHANGED << phase, sessions, trackedPids, procs, events, exitLast, persists, tmpFile,
                    pidFile, unhandled, staleStatus, swept, signalled, atShutdown, loaded, runs, ipc, wm >>

\* resize that treats a missing session like sendInput does
Resize_Strict(p, size) ==
    /\ phase = "running"
    /\ call' = IF ~MapHas(sessions, p)
               THEN Called("resize", p, size, TRUE, << >>)
               ELSE Called("resize", p, size, FALSE, << Size(MapGet(sessions, p).proc, size) >>)
    /\ UNCHANGED << phase, sessions, trackedPids, procs, events, exitLast, persists, tmpFile,
                    pidFile, unhandled, staleStatus, swept, signalled, atShutdown, loaded, timers, runs, ipc, wm >>

\* resize: returns without a session, else process.resize(cols, rows)
Resize(p, size) ==
    /\ phase = "running"
    /\ call' = IF ~MapHas(sessions, p)
               THEN Called("resize", p, size, FALSE, << >>)
               ELSE Called("resize", p, size, FALSE, << Size(MapGet(sessions, p).proc, size) >>)
    /\ UNCHANGED << phase, sessions, trackedPids, procs, events, exitLast, persists, tmpFile,
                    pidFile, unhandled, staleStatus, swept, signalled, atShutdown, loaded, timers, runs, ipc, wm >>

\* ---------------------------------------------------- structured commands
\* An output chunk is a sequence of bytes: "o" is an ASCII byte, "L" and "T"
\* are the lead and the trail byte of one two-byte character.
RunChunks == { << "o", "L" >>, << "T" >> }
Streams == {"stdout", "stderr"}

\* chunk.toString('utf8'): an incomplete character decodes to U+FFFD ("?")
RECURSIVE toString(_)
toString(b) ==
    IF b = << >> THEN << >>
    ELSE IF Head(b) = "L" /\ Len(b) >= 2 /\ b[2] = "T" THEN << "e'" >> \o toString(SubSeq(b, 3, Len(b)))
    ELSE IF Head(b) \in {"L", "T"} THEN << "?" >> \o toString(Tail(b))
    ELSE << Head(b) >> \o toString(Tail(b))

\* what the child process reports when it closes: << >> is null (killed by
\* a signal); a process that could not be spawned closes with the errno
CloseCodes == { << >>, << 0 >>, << 1 >> }
SpawnErrno == << 0 - 2 >>

\* the source of an event: processes of sessions first, then the runs
RunSrc(k) == MaxSpawns + k

\* runStructuredCommand(input): the block, then spawn inside the promise
\* executor.  spawn starts the process, or reports its failure with an
\* 'error' event on the next tick ("failing"), or throws, which rejects the
\* promise at once ("threw").
runStructuredCommand(input, spawned) ==
    Append(runs,
        [paneId  |-> input.paneId,
         command |-> input.command,
         exec    |-> IF input.shell = "cmd" THEN "cmd.exe" ELSE "powershell.exe",
         spawned |-> spawned,
         proc    |-> IF spawned = "threw" THEN "none" ELSE spawned,
         chunks  |-> << >>,
         code    |-> << >>,
         block   |-> [output |-> << >>, exitCode |-> << >>, completed |-> FALSE],
         promise |-> IF spawned = "threw" THEN "rejected" ELSE "pending"])

RunInputs == [paneId : Panes, shell : ShellTypes, command : {<< "d", "i", "r" >>}]

\* the pid of the process a run spawns (none of a session's process)
RunPid(k) == PidOf(MaxSpawns + k)

\* runStructuredCommand that tracks its process like startSession does
RunStructuredCommand_Tracked(input, spawned) ==
    /\ phase = "running"
    /\ Len(runs) < MaxRuns
    /\ runs' = runStructuredCommand(input, spawned)
    /\ trackedPids' = trackedPids \cup {RunPid(Len(runs) + 1)}
    /\ UNCHANGED << phase, sessions, procs, events, exitLast, persists, tmpFile, pidFile, unhandled,
                    staleStatus, swept, signalled, atShutdown, loaded, call, timers, ipc, wm >>

RunStructuredCommand(input, spawned) ==
    /\ phase = "running"
    /\ Len(runs) < MaxRuns
    /\ runs' = runStructuredCommand(input, spawned)
    /\ UNCHANGED << termVars, call, timers, ipc, wm >>

\* the 'data' handlers without block.output += data
RunData_EmitOnly(k, stream, bytes) ==
    /\ k \in 1..Len(runs)
    /\ runs[k].proc = "running"
    /\ Len(runs[k].chunks) < MaxRunChunks
    /\ runs' = [runs EXCEPT ![k].chunks = Append(@, [stream |-> stream, bytes |-> bytes])]
    /\ events' = emit(events, "data", runs[k].paneId, << RunSrc(k), toString(bytes) >>)
    /\ UNCHANGED << phase, sessions, trackedPids, procs, exitLast, persists, tmpFile, pidFile,
                    unhandled, staleStatus, swept, signalled, atShutdown, loaded, call, timers, ipc, wm >>

\* proc.stdout.on('data') and proc.stderr.on('data'): decode the chunk,
\* append it to block.output, emit data(paneId, data)
RunData(k, stream, bytes) ==
    /\ k \in 1..Len(runs)
    /\ runs[k].proc = "running"
    /\ Len(runs[k].chunks) < MaxRunChunks
    /\ runs' = [runs EXCEPT ![k].chunks = Append(@, [stream |-> stream, bytes |-> bytes]),
                            ![k].block.output = @ \o toString(bytes)]
    /\ events' = emit(events, "data", runs[k].paneId, << RunSrc(k), toString(bytes) >>)
    /\ UNCHANGED << phase, sessions, trackedPids, procs, exitLast, persists, tmpFile, pidFile,
                    unhandled, staleStatus, swept, signalled, atShutdown, loaded, call, timers, ipc, wm >>

\* resolve and reject settle a pending promise and do nothing to a settled one
Settle(promise, how) == IF promise = "pending" THEN how ELSE promise

\* proc.on('error'): reject(error)
RunError(k) ==
    /\ k \in 1..Len(runs)
    /\ runs[k].proc = "failing"
    /\ runs' = [runs EXCEPT ![k].proc = "failed", ![k].promise = Settle(@, "rejected")]
    /\ UNCHANGED << termVars, call, timers, ipc, wm >>

\* proc.on('close') that rejects when the exit code is not zero
RunClose_RejectsNonZero(k, code) ==
    /\ k \in 1..Len(runs)
    /\ \/ runs[k].proc = "running" /\ code \in CloseCodes
       \/ runs[k].proc = "failed" /\ code = SpawnErrno
    /\ runs' = [runs EXCEPT ![k].proc = "closed",
                            ![k].code = code,
                            ![k].block.exitCode = IF code = << >> THEN << 0 - 1 >> ELSE code,
                            ![k].block.completed = TRUE,
                            ![k].promise = Settle(@, IF code = << 0 >> THEN "resolved" ELSE "rejected")]
    /\ UNCHANGED << termVars, call, timers, ipc, wm >>

\* proc.on('close'): exitCode = code ?? -1, completedAt, resolve(block).  It
\* comes after the streams have ended, and after 'error' when spawn failed
RunClose(k, code) ==
    /\ k \in 1..Len(runs)
    /\ \/ runs[k].proc = "running" /\ code \in CloseCodes
       \/ runs[k].proc = "failed" /\ code = SpawnErrno
    /\ runs' = [runs EXCEPT ![k].proc = "closed",
                            ![k].code = code,
                            ![k].block.exitCode = IF code = << >> THEN << 0 - 1 >> ELSE code,
                            ![k].block.completed = TRUE,
                            ![k].promise = Settle(@, "resolved")]
    /\ UNCHANGED << termVars, call, timers, ipc, wm >>

Next ==
    \/ Initialize
    \/ \E p \in Panes, sh \in SpawnShells : StartSession(p, sh)
    \/ \E p \in Panes : StartSessionThrows(p)
    \/ \E p \in Panes : StopSession(p)
    \/ \E i \in 1..MaxSpawns : ProcData(i)
    \/ \E i \in 1..MaxSpawns, code \in ExitCodes : ProcExit(i, code)
    \/ Shutdown
    \/ \E r \in BagToSet(persists) : PersistOpen(r)
    \/ \E r \in BagToSet(persists) : PersistWrite(r)
    \/ \E r \in BagToSet(persists) : PersistRename(r)
    \/ \E r \in BagToSet(persists) : PersistRenameFails(r)

Spec == Init /\ [][Next]_vars

\* the startup phase alone, from every registry file
NextRecovery ==
    \/ Initialize
    \/ \E r \in BagToSet(persists) : PersistOpen(r)
    \/ \E r \in BagToSet(persists) : PersistWrite(r)
    \/ \E r \in BagToSet(persists) : PersistRename(r)

SpecRecovery == InitRecovery /\ [][NextRecovery]_vars

\* the startup phase from registry files of every shape
NextLoad ==
    \/ Initialize
    \/ \E r \in BagToSet(persists) : PersistOpen(r)
    \/ \E r \in BagToSet(persists) : PersistWrite(r)
    \/ \E r \in BagToSet(persists) : PersistRename(r)

SpecLoad == InitLoad /\ [][NextLoad]_vars

\* the operations a renderer applies to the sessions it has, and the exits
\* of their processes; the file-system steps of the persists they start are
\* left pending
NextInput ==
    \/ \E p \in Panes, input \in Inputs : SendInput(p, input)
    \/ \E p \in Panes, command \in Commands, forceSubmit \in BOOLEAN : ExecuteInSession(p, command, forceSubmit)
    \/ \E p \in Panes, delivered \in BOOLEAN : SubmitTimer(p, delivered)
    \/ \E p \in Panes, size \in Sizes : Resize(p, size)
    \/ \E p \in Panes : StopSession(p)
    \/ \E i \in 1..MaxSpawns, code \in ExitCodes : ProcExit(i, code)

SpecInput == InitInput /\ [][NextInput]_vars

\* every operation on sessions a caller has, from every table of sessions;
\* the file-system steps of the persists are left pending
NextPanes ==
    \/ \E p \in Panes, sh \in ShellTypes : StartSession(p, sh)
    \/ \E p \in Panes : StopSession(p)
    \/ \E p \in Panes, input \in Inputs : SendInput(p, input)
    \/ \E p \in Panes, command \in Commands, forceSubmit \in BOOLEAN : ExecuteInSession(p, command, forceSubmit)
    \/ \E p \in Panes, size \in Sizes : Resize(p, size)
    \/ \E i \in 1..MaxSpawns, code \in ExitCodes : ProcExit(i, code)

SpecPanes == InitInput /\ [][NextPanes]_vars

\* structured commands, next to whatever sessions there are
NextRun ==
    \/ \E input \in RunInputs, spawned \in {"running", "failing", "threw"} : RunStructuredCommand(input, spawned)
    \/ \E k \in 1..MaxRuns, stream \in Streams, bytes \in RunChunks : RunData(k, stream, bytes)
    \/ \E k \in 1..MaxRuns : RunError(k)
    \/ \E k \in 1..MaxRuns, code \in CloseCodes \cup {SpawnErrno} : RunClose(k, code)

\* pane 1 has a session, pane 2 has none
InitRun == InitInput /\ sessions = SessionsOf({1}, [p \in {1} |-> "powershell"])

SpecRun == InitRun /\ [][NextRun]_vars

\* structured commands while sessions are stopped and the controller
\* shuts down
NextRunFrame ==
    \/ \E input \in RunInputs, spawned \in {"running", "failing", "threw"} : RunStructuredCommand(input, spawned)
    \/ \E k \in 1..MaxRuns, stream \in Streams, bytes \in RunChunks : RunData(k, stream, bytes)
    \/ \E k \in 1..MaxRuns : RunError(k)
    \/ \E k \in 1..MaxRuns, code \in CloseCodes \cup {SpawnErrno} : RunClose(k, code)
    \/ \E p \in Panes : StopSession(p)
    \/ Shutdown

SpecRunFrame == InitRun /\ [][NextRunFrame]_vars

\* ------------------------------------------------- destructive commands
\* A pattern is a sequence of items << kind, arg, quantifier >>: "wb" is \b,
\* "lit" a character, "cls" a character class, "grp" a group whose arg is a
\* pattern; the quantifier is "1", "?", "+" or "*".  Every pattern has the
\* flag i, so letters compare without case.
DESTRUCTIVE_PATTERNS ==
    <<
      \* /\brm\s+(-[rf]+\s+)?[^|&>;\n]+/i
      << << "wb", "", "1" >>, << "lit", "r", "1" >>, << "lit", "m", "1" >>, << "cls", "s", "+" >>,
         << "grp", << << "lit", "-", "1" >>, << "cls", "rf", "+" >>, << "cls", "s", "+" >> >>, "?" >>,
         << "cls", "sep", "+" >> >>,
      \* /\bdel\s+[^|&>;\n]+/i
      << << "wb", "", "1" >>, << "lit", "d", "1" >>, << "lit", "e", "1" >>, << "lit", "l", "1" >>,
         << "cls", "s", "+" >>, << "cls", "sep", "+" >> >>,
      \* /\bRemove-Item\s+[^|&>;\n]+/i
      << << "wb", "", "1" >>, << "lit", "R", "1" >>, << "lit", "e", "1" >>, << "lit", "m", "1" >>,
         << "lit", "o", "1" >>, << "lit", "v", "1" >>, << "lit", "e", "1" >>, << "lit", "-", "1" >>,
         << "lit", "I", "1" >>, << "lit", "t", "1" >>, << "lit", "e", "1" >>, << "lit", "m", "1" >>,
         << "cls", "s", "+" >>, << "cls", "sep", "+" >> >>,
      \* /\berase\s+[^|&>;\n]+/i
      << << "wb", "", "1" >>, << "lit", "e", "1" >>, << "lit", "r", "1" >>, << "lit", "a", "1" >>,
         << "lit", "s", "1" >>, << "lit", "e", "1" >>, << "cls", "s", "+" >>,
         << "cls", "sep", "+" >> >>,
      \* /\bformat\s+/i
      << << "wb", "", "1" >>, << "lit", "f", "1" >>, << "lit", "o", "1" >>, << "lit", "r", "1" >>,
         << "lit", "m", "1" >>, << "lit", "a", "1" >>, << "lit", "t", "1" >>, << "cls", "s", "+" >> >>,
      \* /\bdiskpart\s+/i
      << << "wb", "", "1" >>, << "lit", "d", "1" >>, << "lit", "i", "1" >>, << "lit", "s", "1" >>,
         << "lit", "k", "1" >>, << "lit", "p", "1" >>, << "lit", "a", "1" >>, << "lit", "r", "1" >>,
         << "lit", "t", "1" >>, << "cls", "s", "+" >> >>,
      \* /\bmkfs\./i
      << << "wb", "", "1" >>, << "lit", "m", "1" >>, << "lit", "k", "1" >>, << "lit", "f", "1" >>,
         << "lit", "s", "1" >>, << "lit", ".", "1" >> >>,
      \* /\breg\s+delete/i
      << << "wb", "", "1" >>, << "lit", "r", "1" >>, << "lit", "e", "1" >>, << "lit", "g", "1" >>,
         << "cls", "s", "+" >>, << "lit", "d", "1" >>, << "lit", "e", "1" >>, << "lit", "l", "1" >>,
         << "lit", "e", "1" >>, << "lit", "t", "1" >>, << "lit", "e", "1" >> >>,
      \* /\bsc\s+delete/i
      << << "wb", "", "1" >>, << "lit", "s", "1" >>, << "lit", "c", "1" >>, << "cls", "s", "+" >>,
         << "lit", "d", "1" >>, << "lit", "e", "1" >>, << "lit", "l", "1" >>, << "lit", "e", "1" >>,
         << "lit", "t", "1" >>, << "lit", "e", "1" >> >>,
      \* /\bchkdsk\s+.*\/f/i
      << << "wb", "", "1" >>, << "lit", "c", "1" >>, << "lit", "h", "1" >>, << "lit", "k", "1" >>,
         << "lit", "d", "1" >>, << "lit", "s", "1" >>, << "lit", "k", "1" >>, << "cls", "s", "+" >>,
         << "cls", "dot", "*" >>, << "lit", "/", "1" >>, << "lit", "f", "1" >> >>,
      \* /\bgit\s+reset\s+--hard/i
      << << "wb", "", "1" >>, << "lit", "g", "1" >>, << "lit", "i", "1" >>, << "lit", "t", "1" >>,
         << "cls", "s", "+" >>, << "lit", "r", "1" >>, << "lit", "e", "1" >>, << "lit", "s", "1" >>,
         << "lit", "e", "1" >>, << "lit", "t", "1" >>, << "cls", "s", "+" >>, << "lit", "-", "1" >>,
         << "lit", "-", "1" >>, << "lit", "h", "1" >>, << "lit", "a", "1" >>, << "lit", "r", "1" >>,
         << "lit", "d", "1" >> >>,
      \* /\bgit\s+clean\s+-[df]+/i
      << << "wb", "", "1" >>, << "lit", "g", "1" >>, << "lit", "i", "1" >>, << "lit", "t", "1" >>,
         << "cls", "s", "+" >>, << "lit", "c", "1" >>, << "lit", "l", "1" >>, << "lit", "e", "1" >>,
         << "lit", "a", "1" >>, << "lit", "n", "1" >>, << "cls", "s", "+" >>, << "lit", "-", "1" >>,
         << "cls", "df", "+" >> >>,
      \* /\bgit\s+push\s+.*--force/i
      << << "wb", "", "1" >>, << "lit", "g", "1" >>, << "lit", "i", "1" >>, << "lit", "t", "1" >>,
         << "cls", "s", "+" >>, << "lit", "p", "1" >>, << "lit", "u", "1" >>, << "lit", "s", "1" >>,
         << "lit", "h", "1" >>, << "cls", "s", "+" >>, << "cls", "dot", "*" >>,
         << "lit", "-", "1" >>, << "lit", "-", "1" >>, << "lit", "f", "1" >>, << "lit", "o", "1" >>,
         << "lit", "r", "1" >>, << "lit", "c", "1" >>, << "lit", "e", "1" >> >>,
      \* /\brm\s+-[rf]+/i
      << << "wb", "", "1" >>, << "lit", "r", "1" >>, << "lit", "m", "1" >>, << "cls", "s", "+" >>,
         << "lit", "-", "1" >>, << "cls", "rf", "+" >> >>,
      \* /\bRemove-Item\s+.*-Recurse/i
      << << "wb", "", "1" >>, << "lit", "R", "1" >>, << "lit", "e", "1" >>, << "lit", "m", "1" >>,
         << "lit", "o", "1" >>, << "lit", "v", "1" >>, << "lit", "e", "1" >>, << "lit", "-", "1" >>,
         << "lit", "I", "1" >>, << "lit", "t", "1" >>, << "lit", "e", "1" >>, << "lit", "m", "1" >>,
         << "cls", "s", "+" >>, << "cls", "dot", "*" >>, << "lit", "-", "1" >>,
         << "lit", "R", "1" >>, << "lit", "e", "1" >>, << "lit", "c", "1" >>, << "lit", "u", "1" >>,
         << "lit", "r", "1" >>, << "lit", "s", "1" >>, << "lit", "e", "1" >> >>,
      \* />\s*\/dev\/[^|&>;\n]+/i
      << << "lit", ">", "1" >>, << "cls", "s", "*" >>, << "lit", "/", "1" >>, << "lit", "d", "1" >>,
         << "lit", "e", "1" >>, << "lit", "v", "1" >>, << "lit", "/", "1" >>,
         << "cls", "sep", "+" >> >>,
      \* />\s*[a-zA-Z]:\\[^|&>;\n]+/i
      << << "lit", ">", "1" >>, << "cls", "s", "*" >>, << "cls", "az", "1" >>,
         << "lit", ":", "1" >>, << "lit", "\\", "1" >>, << "cls", "sep", "+" >> >>,
      \* /\btaskkill\s+.*\/f/i
      << << "wb", "", "1" >>, << "lit", "t", "1" >>, << "lit", "a", "1" >>, << "lit", "s", "1" >>,
         << "lit", "k", "1" >>, << "lit", "k", "1" >>, << "lit", "i", "1" >>, << "lit", "l", "1" >>,
         << "lit", "l", "1" >>, << "cls", "s", "+" >>, << "cls", "dot", "*" >>,
         << "lit", "/", "1" >>, << "lit", "f", "1" >> >>,
      \* /\bkill\s+-9/i
      << << "wb", "", "1" >>, << "lit", "k", "1" >>, << "lit", "i", "1" >>, << "lit", "l", "1" >>,
         << "lit", "l", "1" >>, << "cls", "s", "+" >>, << "lit", "-", "1" >>, << "lit", "9", "1" >> >>,
      \* /\bshutdown\s+/i
      << << "wb", "", "1" >>, << "lit", "s", "1" >>, << "lit", "h", "1" >>, << "lit", "u", "1" >>,
         << "lit", "t", "1" >>, << "lit", "d", "1" >>, << "lit", "o", "1" >>, << "lit", "w", "1" >>,
         << "lit", "n", "1" >>, << "cls", "s", "+" >> >>,
      \* /\brestart-computer/i
      << << "wb", "", "1" >>, << "lit", "r", "1" >>, << "lit", "e", "1" >>, << "lit", "s", "1" >>,
         << "lit", "t", "1" >>, << "lit", "a", "1" >>, << "lit", "r", "1" >>, << "lit", "t", "1" >>,
         << "lit", "-", "1" >>, << "lit", "c", "1" >>, << "lit", "o", "1" >>, << "lit", "m", "1" >>,
         << "lit", "p", "1" >>, << "lit", "u", "1" >>, << "lit", "t", "1" >>, << "lit", "e", "1" >>,
         << "lit", "r", "1" >> >>
    >>

\* the classes \s, [rf], [df], [^|&>;\n], . and [a-zA-Z] under the flag i
InPatternClass(cls, c) ==
    IF cls = "s" THEN IsSpace(c)
    ELSE IF cls = "rf" THEN ToLower(c) \in {"r", "f"}
    ELSE IF cls = "df" THEN ToLower(c) \in {"d", "f"}
    ELSE IF cls = "sep" THEN c \notin {"|", "&", ">", ";", "\n"}
    ELSE IF cls = "dot" THEN c \notin {"\n", CR}
    ELSE IsLetter(c)

\* \b at position k: exactly one of the characters before and at k is a
\* word character
AtWordBoundary(t, k) ==
    (k > 1 /\ IsWord(t[k - 1])) # (k <= Len(t) /\ IsWord(t[k]))

\* The positions a match can stand at after the pattern, having started at
\* one of the positions of S (a position is the index of the next character)
RECURSIVE Ends(_, _, _)
RECURSIVE MatchOne(_, _, _)
RECURSIVE MatchMany(_, _, _)
MatchOne(item, t, S) ==
    IF item[1] = "wb" THEN { k \in S : AtWordBoundary(t, k) }
    ELSE IF item[1] = "lit" THEN { k + 1 : k \in { j \in S : j <= Len(t) /\ ToLower(t[j]) = ToLower(item[2]) } }
    ELSE IF item[1] = "cls" THEN { k + 1 : k \in { j \in S : j <= Len(t) /\ InPatternClass(item[2], t[j]) } }
    ELSE Ends(item[2], t, S)

MatchMany(item, t, S) ==
    LET N == S \cup MatchOne(item, t, S)
    IN  IF N = S THEN S ELSE MatchMany(item, t, N)

Ends(pattern, t, S) ==
    IF pattern = << >> \/ S = {} THEN S
    ELSE LET item == Head(pattern)
             next == IF item[3] = "1" THEN MatchOne(item, t, S)
                     ELSE IF item[3] = "?" THEN S \cup MatchOne(item, t, S)
                     ELSE IF item[3] = "+" THEN MatchMany(item, t, MatchOne(item, t, S))
                     ELSE MatchMany(item, t, S)
         IN  Ends(Tail(pattern), t, next)

\* pattern.test(command): the pattern matches somewhere in the command
test(pattern, command) == Ends(pattern, command, 1..(Len(command) + 1)) # {}

\* DESTRUCTIVE_PATTERNS.some((pattern) => pattern.test(command))
isDestructiveCommand(command) ==
    \E n \in 1..Len(DESTRUCTIVE_PATTERNS) : test(DESTRUCTIVE_PATTERNS[n], command)

\* ------------------------------------------------------------ IPC layer
MAX_PANE_ID_LENGTH == 128
MAX_COMMAND_LENGTH == 8000

\* What a renderer passes in a field of an input: a string, or something
\* that is not a string (undefined when the field or the input is missing)
Str(t) == [type |-> "string", text |-> t]
Undefined == [type |-> "undefined", text |-> << >>]

\* the character of code 0
NUL == "NUL"
Repeat(c, n) == [i \in 1..n |-> c]
Includes(t, c) == \E i \in 1..Len(t) : t[i] = c
StartsWith(t, prefix) == Len(t) >= Len(prefix) /\ SubSeq(t, 1, Len(prefix)) = prefix

\* The assert functions return (TRUE) or throw (FALSE)
assertNonEmptyString(value) ==
    /\ value.type = "string"
    /\ Len(trim(value.text)) # 0

assertPaneId(value) ==
    /\ assertNonEmptyString(value)
    /\ ~(Len(value.text) > MAX_PANE_ID_LENGTH \/ Includes(value.text, NUL))

assertCommand(value) ==
    /\ assertNonEmptyString(value)
    /\ ~(Len(value.text) > MAX_COMMAND_LENGTH \/ Includes(value.text, NUL))

\* Paths are those of Windows, where powershell.exe and cmd.exe run: a
\* drive letter, \ and / as separators, names compared without case.
\* Paths of the forms C:name, \\server\share and \\?\ are not among the
\* inputs.
IsSep(c) == c \in {"\\", "/"}
HasDrive(t) == Len(t) >= 3 /\ IsLetter(t[1]) /\ t[2] = ":" /\ IsSep(t[3])
isAbsolute(t) == (t # << >> /\ IsSep(t[1])) \/ HasDrive(t)

\* the names between the separators of a path
RECURSIVE Split(_, _)
Split(t, name) ==
    IF t = << >> THEN (IF name = << >> THEN << >> ELSE << name >>)
    ELSE IF IsSep(Head(t)) THEN (IF name = << >> THEN << >> ELSE << name >>) \o Split(Tail(t), << >>)
    ELSE Split(Tail(t), Append(name, Head(t)))

\* . is dropped and .. drops the name before it; the root has no parent
RECURSIVE Normalize(_, _)
Normalize(names, done) ==
    IF names = << >> THEN done
    ELSE IF Head(names) = << "." >> THEN Normalize(Tail(names), done)
    ELSE IF Head(names) = << ".", "." >>
         THEN Normalize(Tail(names), IF done = << >> THEN done ELSE SubSeq(done, 1, Len(done) - 1))
    ELSE Normalize(Tail(names), Append(done, Head(names)))

RECURSIVE Join(_)
Join(names) ==
    IF names = << >> THEN << >>
    ELSE IF Len(names) = 1 THEN names[1]
    ELSE names[1] \o << "\\" >> \o Join(Tail(names))

\* process.cwd() of the main process
ProcessCwd == [drive |-> "C", names |-> << << "a", "p", "p" >> >>]

\* path.resolve(p): a relative path is taken from process.cwd()
Resolved(t) ==
    IF HasDrive(t) THEN [drive |-> t[1], names |-> Normalize(Split(SubSeq(t, 4, Len(t)), << >>), << >>)]
    ELSE IF t # << >> /\ IsSep(t[1]) THEN [drive |-> ProcessCwd.drive, names |-> Normalize(Split(t, << >>), << >>)]
    ELSE [drive |-> ProcessCwd.drive, names |-> Normalize(ProcessCwd.names \o Split(t, << >>), << >>)]

Format(r) == << r.drive, ":", "\\" >> \o Join(r.names)
resolve(t) == Format(Resolved(t))

SameName(a, b) == Len(a) = Len(b) /\ \A i \in 1..Len(a) : ToLower(a[i]) = ToLower(b[i])

\* how many leading names two paths share
RECURSIVE CommonLen(_, _)
CommonLen(a, b) ==
    IF a # << >> /\ b # << >> /\ SameName(Head(a), Head(b)) THEN 1 + CommonLen(Tail(a), Tail(b)) ELSE 0

\* path.relative(from, to): the path from one resolved path to the other;
\* the other path itself when it is on another drive
relative(from, to) ==
    LET f == Resolved(from)
        t == Resolved(to)
        n == CommonLen(f.names, t.names)
    IN  IF ToLower(f.drive) # ToLower(t.drive) THEN Format(t)
        ELSE Join([i \in 1..(Len(f.names) - n) |-> << ".", "." >>] \o SubSeq(t.names, n + 1, Len(t.names)))

\* isPathInside that compares the texts of the two paths
isPathInside_ByPrefix(parentDir, candidatePath) ==
    StartsWith(resolve(candidatePath), resolve(parentDir))

isPathInside(parentDir, candidatePath) ==
    LET parent == resolve(parentDir)
        candidate == resolve(candidatePath)
        rel == relative(parent, candidate)
    IN  rel = << >> \/ (~StartsWith(rel, << ".", "." >>) /\ ~isAbsolute(rel))

\* the file system: directories and files
Directories ==
    { << "C", ":", "\\", "w" >>,
      << "C", ":", "\\", "w", "\\", "a" >>,
      << "C", ":", "\\", "w", "\\", ".", ".", "c" >>,
      << "C", ":", "\\", "w", "x" >>,
      << "C", ":", "\\", "a", "p", "p" >>,
      << "D", ":", "\\", "w" >> }
Files == { << "C", ":", "\\", "w", "\\", "f" >> }

SamePath(a, b) ==
    LET x == Resolved(a)
        y == Resolved(b)
    IN  /\ ToLower(x.drive) = ToLower(y.drive)
        /\ Len(x.names) = Len(y.names)
        /\ \A i \in 1..Len(x.names) : SameName(x.names[i], y.names[i])

existsSync(t) == \E e \in Directories \cup Files : SamePath(e, t)
isDirectory(t) == \E e \in Directories : SamePath(e, t)

\* workspaceManager.list().workspaces
Workspaces == << [rootDir |-> << "C", ":", "\\", "w" >>] >>

assertWorkspaceCwd(cwd) ==
    /\ assertNonEmptyString(cwd)
    /\ LET resolved == resolve(cwd.text)
       IN  /\ isAbsolute(resolved)
           /\ ~(~existsSync(resolved) \/ ~isDirectory(resolved))
           /\ \E n \in 1..Len(Workspaces) : isPathInside(Workspaces[n].rootDir, resolved)

\* the paneId of a pane; the last pane's has the greatest length allowed
PaneIdText(p) == Repeat("p", MAX_PANE_ID_LENGTH - NumPanes + p)
PaneOf(t) == CHOOSE p \in Panes : PaneIdText(p) = t

PaneIdInputs ==
    { Str(PaneIdText(p)) : p \in Panes }
    \cup { Str(<< >>), Str(<< " " >>), Str(Repeat("p", MAX_PANE_ID_LENGTH + 1)), Str(<< "p", NUL >>), Undefined }

CwdInputs ==
    { Str(<< "C", ":", "\\", "w" >>),
      Str(<< "c", ":", "/", "w", "/", "a" >>),
      Str(<< "C", ":", "\\", "w", "\\", "a", "\\", ".", "." >>),
      Str(<< "C", ":", "\\", "w", "\\", ".", ".", "\\", "w", "x" >>),
      Str(<< "C", ":", "\\", "w", "x" >>),
      Str(<< "C", ":", "\\", "w", "\\", "f" >>),
      Str(<< "C", ":", "\\", "w", "\\", "n", "o", "n", "e" >>),
      Str(<< "." >>),
      Str(<< ".", ".", "\\", "w" >>),
      Str(<< "D", ":", "\\", "w" >>),
      Str(<< "C", ":", "\\", "w", "\\", ".", ".", "c" >>),
      Str(<< >>),
      Str(<< " " >>),
      Undefined }

CommandInputs ==
    { Str(<< "d", "i", "r" >>),
      Str(<< "R", "e", "m", "o", "v", "e", "-", "I", "t", "e", "m", " ", ".", "\\", "t", "m", "p", " ",
             "-", "R", "e", "c", "u", "r", "s", "e" >>),
      Str(<< "G", "I", "T", " ", "R", "E", "S", "E", "T", " ", "-", "-", "H", "A", "R", "D" >>),
      Str(<< "f", "a", "r", "m", " ", "x" >>),
      Str(<< >>),
      Str(Repeat("a", MAX_COMMAND_LENGTH + 1)),
      Str(<< "d", NUL >>),
      Undefined }

StartInputs == [paneId : PaneIdInputs, shell : ShellTypes, cwd : CwdInputs, command : {Undefined}]
CommandRunInputs == [paneId : PaneIdInputs, shell : ShellTypes, cwd : CwdInputs, command : CommandInputs]

Warning == "Destructive command detected. Review carefully before re-running."

\* a request on a channel: whether the handler called the TerminalManager,
\* how the call went, and how the handler ended
Request(channel, input, called, spawned, run, outcome) ==
    [channel |-> channel, input |-> input, called |-> called, spawned |-> spawned,
     run |-> run, outcome |-> outcome, response |-> << >>]

\* ipcMain.handle('terminal:startSession')
IpcStartSession(input, spawned) ==
    /\ Len(ipc) < MaxRequests
    /\ IF assertPaneId(input.paneId) /\ assertWorkspaceCwd(input.cwd)
       THEN IF spawned = "running"
            THEN /\ startSession(PaneOf(input.paneId.text), input.shell)
                 /\ ipc' = Append(ipc, Request("terminal:startSession", input, TRUE, spawned, 0, "returned"))
            ELSE /\ startSessionThrows(PaneOf(input.paneId.text))
                 /\ ipc' = Append(ipc, Request("terminal:startSession", input, TRUE, spawned, 0, "threw"))
       ELSE /\ ipc' = Append(ipc, Request("terminal:startSession", input, FALSE, "none", 0, "threw"))
            /\ UNCHANGED termVars
    /\ UNCHANGED << call, timers, runs, wm >>

\* the handler that refuses a destructive command
IpcRunStructuredCommand_Refusing(input, spawned) ==
    /\ phase = "running"
    /\ Len(ipc) < MaxRequests
    /\ Len(runs) < MaxRuns
    /\ IF /\ assertPaneId(input.paneId) /\ assertWorkspaceCwd(input.cwd) /\ assertCommand(input.command)
          /\ ~isDestructiveCommand(input.command.text)
       THEN /\ runs' = runStructuredCommand([paneId |-> PaneOf(input.paneId.text), shell |-> input.shell,
                                             command |-> input.command.text], spawned)
            /\ ipc' = Append(ipc, Request("terminal:runStructuredCommand", input, TRUE, spawned,
                                          Len(runs) + 1, "pending"))
       ELSE /\ ipc' = Append(ipc, Request("terminal:runStructuredCommand", input, FALSE, "none", 0, "threw"))
            /\ UNCHANGED runs
    /\ UNCHANGED << termVars, call, timers, wm >>

\* ipcMain.handle('terminal:runStructuredCommand') up to the await
IpcRunStructuredCommand(input, spawned) ==
    /\ phase = "running"
    /\ Len(ipc) < MaxRequests
    /\ Len(runs) < MaxRuns
    /\ IF assertPaneId(input.paneId) /\ assertWorkspaceCwd(input.cwd) /\ assertCommand(input.command)
       THEN /\ runs' = runStructuredCommand([paneId |-> PaneOf(input.paneId.text), shell |-> input.shell,
                                             command |-> input.command.text], spawned)
            /\ ipc' = Append(ipc, Request("terminal:runStructuredCommand", input, TRUE, spawned,
                                          Len(runs) + 1, "pending"))
       ELSE /\ ipc' = Append(ipc, Request("terminal:runStructuredCommand", input, FALSE, "none", 0, "threw"))
            /\ UNCHANGED runs
    /\ UNCHANGED << termVars, call, timers, wm >>

\* the handler after the await: the block, with the warning when the
\* command is destructive; a rejected call leaves the handler as a throw
IpcRunReturn(j) ==
    /\ j \in 1..Len(ipc)
    /\ ipc[j].outcome = "pending"
    /\ runs[ipc[j].run].promise # "pending"
    /\ ipc' = [ipc EXCEPT ![j].outcome = IF runs[ipc[j].run].promise = "resolved" THEN "returned" ELSE "threw",
                          ![j].response = IF runs[ipc[j].run].promise = "resolved"
                                          THEN << [block |-> runs[ipc[j].run].block,
                                                   warning |-> IF isDestructiveCommand(ipc[j].input.command.text)
                                                               THEN << Warning >> ELSE << >>] >>
                                          ELSE << >>]
    /\ UNCHANGED << termVars, call, timers, runs, wm >>

\* requests of a renderer, the processes of the commands they run and the
\* exits of the sessions' processes
NextIpc ==
    \/ /\ Len(ipc) < MaxRequests
       /\ \E input \in StartInputs, spawned \in {"running", "threw"} : IpcStartSession(input, spawned)
    \/ /\ Len(ipc) < MaxRequests
       /\ \E input \in CommandRunInputs, spawned \in {"running", "failing", "threw"} : IpcRunStructuredCommand(input, spawned)
    \/ \E j \in 1..MaxRequests : IpcRunReturn(j)
    \/ \E k \in 1..MaxRuns, stream \in Streams, bytes \in RunChunks : RunData(k, stream, bytes)
    \/ \E k \in 1..MaxRuns : RunError(k)
    \/ \E k \in 1..MaxRuns, code \in CloseCodes \cup {SpawnErrno} : RunClose(k, code)
    \/ \E i \in 1..MaxSpawns, code \in ExitCodes : ProcExit(i, code)

SpecIpc == InitRun /\ [][NextIpc]_vars

\* ================================================================ claims
ThisRunPids == { PidOf(i) : i \in 1..MaxSpawns }
Loaded(f) == SeqToSet(readTrackedPids(f))
SessionProcs == { sessions[k].proc : k \in 1..Len(sessions) }
ExitEvents(i) ==
    { k \in 1..Len(events[procs[i].paneId]) :
        /\ events[procs[i].paneId][k].kind = "exit"
        /\ events[procs[i].paneId][k].value[1] = i }

\* C1: when the application dies without shutdown() while no persist is in
\* flight, the registry file lists the pid of every session in the table,
\* so the sweep of the next initialize() reaches each of those processes.
C1_RegistryCoversSessions ==
    (phase = "running" /\ persists = EmptyBag)
        => \A i \in SessionProcs : PidOf(i) \in Loaded(pidFile)

\* C2: the table holds at most one session per pane at every instant, and a
\* startSession on a pane that has a session leaves exactly one session for
\* it, the new one, having killed the old process and made exactly one
\* untrack (old pid) and one track (new pid), each with its persist.
C2_OnePerPane ==
    \A p \in Panes : Cardinality({ k \in 1..Len(sessions) : sessions[k].paneId = p }) <= 1

C2_ReplaceStep ==
    \A p \in Panes :
        ((\E sh \in SpawnShells : StartSession(p, sh)) /\ MapHas(sessions, p)) =>
            LET old == MapGet(sessions, p).proc
                new == Len(procs) + 1
                mid == trackedPids \ {PidOf(old)}
            IN  /\ Cardinality({ k \in 1..Len(sessions') : sessions'[k].paneId = p }) = 1
                /\ MapGet(sessions', p).proc = new
                /\ procs'[new].paneId = p /\ procs'[new].state = "alive" /\ ~procs'[new].killed
                /\ procs'[old].killed
                /\ trackedPids' = mid \cup {PidOf(new)}
                /\ persists' = (persists (+) SetToBag({NewPersist(mid, "mutation")}))
                                   (+) SetToBag({NewPersist(mid \cup {PidOf(new)}, "mutation")})

\* C2: at most one session per pane in every state, and every replacing
\* startSession step has the postcondition above
C2_OneSessionPerPane == [](C2_OnePerPane) /\ [][C2_ReplaceStep]_vars

\* a pane whose session was replaced: the old process killed and not yet
\* exited, the new one in the table, both persists of the replacement started
C2_Witness ==
    \E i, j \in 1..Len(procs) :
        /\ i < j
        /\ procs[i].paneId = procs[j].paneId
        /\ procs[i].killed /\ procs[i].state = "alive"
        /\ MapHas(sessions, procs[j].paneId)
        /\ MapGet(sessions, procs[j].paneId).proc = j
        /\ BagIn(NewPersist(trackedPids \ {PidOf(j)}, "mutation"), persists)
        /\ BagIn(NewPersist(trackedPids, "mutation"), persists)

\* C3: once shutdown() has completed, the session table is empty, the
\* registry is empty in memory and on disk, and every process that was
\* tracked when shutdown() was called has been sent a termination signal.
C3_AfterShutdown ==
    phase = "stopped" =>
        /\ sessions = << >>
        /\ trackedPids = {}
        /\ Loaded(pidFile) = {}
        /\ \A i \in 1..Len(procs) : PidOf(i) \in atShutdown => procs[i].killed

\* C4 as stated: initialize() signals exactly the listed pids that belong to
\* running processes, and ends with an empty registry persisted.
IsRunning(pid) == staleStatus[pid] \in {"running", "denied"}

C4_SignalsEveryRunning ==
    phase = "running" =>
        /\ signalled = { pid \in swept : IsRunning(pid) }
        /\ pidFile = File(Payload({}))

\* C4 as amended: initialize() signals exactly the listed pids whose
\* liveness probe process.kill(pid, 0) succeeds (a running process the
\* controller may not signal is skipped like a dead one) and no other pid,
\* and ends with an empty registry persisted, for every N and M.
C4_SignalsEveryProbed ==
    phase = "running" =>
        /\ signalled = { pid \in swept : staleStatus[pid] = "running" }
        /\ trackedPids = {}
        /\ pidFile = File(Payload({}))

\* N = 2 listed, M = 1 of them running and signalled, initialize() finished
C4_Witness ==
    /\ phase = "running"
    /\ Cardinality(swept) = 2
    /\ Cardinality(signalled) = 1
    /\ \E pid \in swept : staleStatus[pid] = "gone"

\* C5: per pane, data events are published in the order their chunks
\* arrived, and no data event of the pane is published after an exit event
\* of the pane until startSession is next called for the pane.
C5_ChunksInOrder ==
    \A p \in Panes : \A a, b \in 1..Len(events[p]) :
        (/\ a < b
         /\ events[p][a].kind = "data" /\ events[p][b].kind = "data"
         /\ events[p][a].value[1] = events[p][b].value[1])
            => events[p][a].value[2] < events[p][b].value[2]

C5_ExitStaysLast ==
    \A p \in Panes :
        (exitLast[p] /\ exitLast'[p] /\ Len(events'[p]) > Len(events[p]))
            => events'[p][Len(events'[p])].kind # "data"

\* C5: chunks in arrival order in every state, and no step publishes a data
\* event for a pane whose latest event is an exit
C5_ExitIsLast == [](C5_ChunksInOrder) /\ [][C5_ExitStaysLast]_vars

\* C6: the termination of a session's process publishes exactly one exit
\* event for it, carrying its pane and its exit code, and when the handler
\* has run the process is in no session of the table and its pid is not
\* tracked.
C6_OneExitPerSession ==
    \A i \in 1..Len(procs) :
        /\ procs[i].state = "alive" => ExitEvents(i) = {}
        /\ procs[i].state = "exited" =>
              /\ Cardinality(ExitEvents(i)) = 1
              /\ \A k \in ExitEvents(i) :
                    events[procs[i].paneId][k].value = << i >> \o procs[i].exitCode
              /\ i \notin SessionProcs
              /\ PidOf(i) \notin trackedPids

\* a session's process exited on its own, with a non-zero code
C6_Witness ==
    \E i \in 1..Len(procs) :
        procs[i].state = "exited" /\ ~procs[i].killed /\ procs[i].exitCode = << 1 >>

\* C7: a tracked pid is positive and is the pid of a process that
\* startSession spawned and that has neither been stopped nor exited: the
\* stop or the exit, whichever comes first, removes it.
C7_TrackedAreLive ==
    \A pid \in trackedPids :
        /\ pid > 0
        /\ \E i \in 1..Len(procs) :
              PidOf(i) = pid /\ procs[i].state = "alive" /\ ~procs[i].killed

\* one pid removed by a stop, another by the exit of its process
C7_Witness ==
    /\ \E i \in 1..Len(procs) : procs[i].killed /\ procs[i].state = "alive"
    /\ \E i \in 1..Len(procs) : ~procs[i].killed /\ procs[i].state = "exited"

\* C8: the registry file is at every instant absent or one complete payload
\* of one persist call.
C8_FileIsWhole ==
    pidFile.exists =>
        \E S \in SUBSET (StalePids \cup ThisRunPids) : pidFile.data = Payload(S)

\* C9: when no persist is in flight, loading the registry file returns the
\* in-memory tracked set.
C9_LastWriteWins ==
    (phase \in {"running", "stopped", "shutdownFailed"} /\ persists = EmptyBag)
        => Loaded(pidFile) = trackedPids

\* C10: no persist fails: no rename finds the temporary file renamed away,
\* and no rejection goes unhandled.
C10_NoPersistFails == ~unhandled

\* C11: loading the registry never fails: a missing or empty file yields no
\* pids; a malformed file with a recognizable "pids" array yields exactly
\* the distinct positive integers found in it, without duplicates; any
\* other unreadable content yields no pids.
InArray(d, k) ==
    \E a \in 1..(k - 1), b \in (k + 1)..Len(d) :
        /\ d[a][1] = "{"
        /\ IsCloser(d[b])
        /\ \A j \in (a + 1)..(b - 1) : ~IsOpener(d[j]) /\ ~IsCloser(d[j])

IntegersFound(d) ==
    { d[k][2] : k \in { j \in 1..Len(d) : IsValidPid(d[j]) /\ InArray(d, j) } }

NoDuplicates(s) == \A a, b \in 1..Len(s) : a # b => s[a] # s[b]

C11_LoadStep ==
    Initialize =>
        /\ (~pidFile.exists \/ pidFile.data = << >>) => loaded' = << >>
        /\ (pidFile.exists /\ ~WellFormed(pidFile.data)) =>
              /\ NoDuplicates(loaded')
              /\ SeqToSet(loaded') = IntegersFound(pidFile.data)

C11_LoadsWhatIsFound == [][C11_LoadStep]_vars

\* C20 as stated: on any parse failure the registry degrades to no tracked
\* processes and initialize() signals no process; in a well-formed file the
\* fields other than the pid array do not change the loaded pids.
Malformed(f) == f.exists /\ f.data # << >> /\ ~WellFormed(f.data)

IgnoresOtherFields(f, pids) ==
    IsObject(f.data) => pids = readTrackedPids(File(<< Open >> \o Tail(f.data)))

C20_DegradeStep ==
    Initialize =>
        /\ Malformed(pidFile) => (loaded' = << >> /\ signalled' = {})
        /\ IgnoresOtherFields(pidFile, loaded')

Spelled(d) ==
    { d[k][2] : k \in { j \in 1..Len(d) :
        /\ IsNumber(d[j]) /\ d[j][2] > 0
        /\ \E a \in 1..(j - 1) : d[a][1] = "{"
        /\ \E b \in (j + 1)..Len(d) : IsCloser(d[b]) } }

\* the positive integer elements of the file's first "pids" array, up to
\* its closing bracket or to a bracket nested in it
FirstArray(d) ==
    { d[k][2] : k \in { j \in 1..Len(d) :
        /\ IsValidPid(d[j])
        /\ \E a \in 1..(j - 1) :
              /\ d[a][1] = "{"
              /\ \A i \in 1..(a - 1) : d[i][1] # "{"
              /\ \A i \in (a + 1)..j : ~IsOpener(d[i]) /\ ~IsCloser(d[i])
        /\ \E b \in (j + 1)..Len(d) : IsCloser(d[b]) } }

C20_RecoverStep ==
    Initialize =>
        /\ Malformed(pidFile) =>
              /\ FirstArray(pidFile.data) \subseteq SeqToSet(loaded')
              /\ SeqToSet(loaded') \subseteq Spelled(pidFile.data)
              /\ signalled' = { pid \in SeqToSet(loaded') : staleStatus[pid] = "running" }
        /\ IgnoresOtherFields(pidFile, loaded')

C12_Step ==
    \A p \in Panes :
        /\ (/\ ~MapHas(sessions, p)
            /\ \/ \E input \in Inputs : SendInput(p, input)
               \/ \E command \in Commands, forceSubmit \in BOOLEAN : ExecuteInSession(p, command, forceSubmit))
              => /\ call'.threw
                 /\ call'.io = << >>
                 /\ UNCHANGED << timers, sessions, trackedPids, persists, procs, events >>
        /\ \A input \in Inputs :
              (MapHas(sessions, p) /\ SendInput(p, input))
                  => /\ ~call'.threw
                     /\ Len(call'.io) = 1
                     /\ call'.io[1].proc = MapGet(sessions, p).proc
                     /\ call'.io[1].kind = "write"
                     /\ call'.io[1].data = input
                     /\ UNCHANGED << timers, sessions, trackedPids, persists, procs, events >>

C12_NoSessionIsAnError == [][C12_Step]_vars

\* executeInSession with forceSubmit has failed on a pane without a session
\* while another pane has one: nothing was written, no timer is pending
C12_Witness ==
    /\ call.op = "executeInSession"
    /\ call.threw
    /\ call.io = << >>
    /\ ~MapHas(sessions, call.paneId)
    /\ sessions # << >>
    /\ \A p \in Panes : timers[p] = 0

\* C13: stopSession and resize on a pane without a session return without
\* error and change nothing (no signal, no event, table and registry as they
\* were), so a second stopSession in a row has no further effect.
C13_Step ==
    \A p \in Panes :
        ~MapHas(sessions, p) =>
            /\ StopSession(p) => UNCHANGED vars
            /\ \A size \in Sizes :
                  Resize(p, size)
                      => /\ ~call'.threw
                         /\ call'.io = << >>
                         /\ UNCHANGED << timers, sessions, trackedPids, persists, procs, events >>

C13_StopTwice ==
    \A p \in Panes : stopSession(stopSession(Whole, p), p) = stopSession(Whole, p)

C13_AbsentIsNoOp == [](C13_StopTwice) /\ [][C13_Step]_vars

\* a pane's session was stopped, then resize was called for the pane
C13_Witness ==
    /\ call.op = "resize"
    /\ ~call.threw
    /\ call.io = << >>
    /\ ~MapHas(sessions, call.paneId)
    /\ \E i \in 1..Len(procs) : procs[i].paneId = call.paneId /\ procs[i].killed

\* C14: executeInSession writes the proxy invocation, which differs from the
\* command, exactly when the pane's session is a cmd session and the command
\* matches the PowerShell heuristic (a Verb-Noun token does, dir does not);
\* a PowerShell session, and a command that does not match, get the command
\* text as given.
C14_Step ==
    \A p \in Panes :
        (/\ MapHas(sessions, p)
         /\ call'.op = "executeInSession"
         /\ \E forceSubmit \in BOOLEAN : ExecuteInSession(p, call'.arg, forceSubmit)) =>
            LET text == call'.io[1].data
                proxied == MapGet(sessions, p).shell = "cmd" /\ looksLikePowerShellCommand(call'.arg)
            IN  /\ call'.io[1].proc = MapGet(sessions, p).proc
                /\ proxied => text = buildPowerShellProxyCommand(call'.arg) /\ text # call'.arg
                /\ ~proxied => text = call'.arg

C14_Examples ==
    /\ looksLikePowerShellCommand(<< "G", "e", "t", "-", "I", "t", "e", "m" >>)
    /\ ~looksLikePowerShellCommand(<< "d", "i", "r" >>)

C14_ProxyForCmdOnly == [](C14_Examples) /\ [][C14_Step]_vars

\* a cmd session was given Get-Item and received the proxy invocation
C14_Witness ==
    /\ call.op = "executeInSession"
    /\ MapHas(sessions, call.paneId)
    /\ MapGet(sessions, call.paneId).shell = "cmd"
    /\ call.io[1].data = buildPowerShellProxyCommand(<< "G", "e", "t", "-", "I", "t", "e", "m" >>)

\* C15: runStructuredCommand settles once: it rejects only when the process
\* could not be spawned, and otherwise it resolves when the process closes,
\* with exitCode the code the process reported (zero or not) or -1 when it
\* reported none, and completedAt set; exitCode is null from launch until
\* the close, and neither the settlement nor the resolved record changes
\* afterwards.
C15_Settled ==
    \A k \in 1..Len(runs) :
        LET r == runs[k]
        IN  /\ r.promise = "rejected" => r.spawned # "running"
            /\ r.spawned # "running" => (r.proc = "failing" \/ r.promise = "rejected")
            /\ (r.spawned = "running" /\ r.proc = "running") =>
                  r.promise = "pending" /\ r.block.exitCode = << >> /\ ~r.block.completed
            /\ (r.spawned = "running" /\ r.proc = "closed") =>
                  /\ r.promise = "resolved"
                  /\ r.block.completed
                  /\ r.block.exitCode = (IF r.code = << >> THEN << 0 - 1 >> ELSE r.code)

C15_StaysSettled ==
    \A k \in 1..Len(runs) :
        /\ runs[k].promise # "pending" => runs'[k].promise = runs[k].promise
        /\ runs[k].promise = "resolved" => runs'[k].block = runs[k].block

C15_SettlesOnce == [](C15_Settled) /\ [][C15_StaysSettled]_vars

\* one call has resolved with exit code 1, another was rejected after its
\* process could not be spawned and has closed since
C15_Witness ==
    \E k, j \in 1..Len(runs) :
        /\ runs[k].promise = "resolved" /\ runs[k].block.exitCode = << 1 >>
        /\ runs[j].promise = "rejected" /\ runs[j].proc = "closed"

\* C16: the record's output is the concatenation, in arrival order, of the
\* decoded stdout and stderr chunks of the call; each of them is published
\* as a data event of the pane, in the same order; all of that before the
\* call resolves.
RECURSIVE Flatten(_)
Flatten(ss) == IF ss = << >> THEN << >> ELSE Head(ss) \o Flatten(Tail(ss))

Decoded(k) == [n \in 1..Len(runs[k].chunks) |-> toString(runs[k].chunks[n].bytes)]

RunEvents(k) ==
    SelectSeq(events[runs[k].paneId], LAMBDA e : e.value[1] = RunSrc(k))

C16_OutputAndEvents ==
    \A k \in 1..Len(runs) :
        /\ runs[k].block.output = Flatten(Decoded(k))
        /\ RunEvents(k) =
              [n \in 1..Len(runs[k].chunks) |->
                  [kind |-> "data", paneId |-> runs[k].paneId, value |-> << RunSrc(k), Decoded(k)[n] >>]]

C16_NothingAfterResolve ==
    \A k \in 1..Len(runs) :
        runs[k].promise = "resolved" =>
            /\ runs'[k].chunks = runs[k].chunks
            /\ RunEvents(k)' = RunEvents(k)

C16_OutputInArrivalOrder == [](C16_OutputAndEvents) /\ [][C16_NothingAfterResolve]_vars

\* a call resolved after a stderr chunk and then a stdout chunk arrived
\* while another call published on the same pane
C16_Witness ==
    \E k, j \in 1..Len(runs) :
        /\ k # j
        /\ runs[k].paneId = runs[j].paneId
        /\ runs[j].chunks # << >>
        /\ runs[k].promise = "resolved"
        /\ Len(runs[k].chunks) = 2
        /\ runs[k].chunks[1].stream = "stderr"
        /\ runs[k].chunks[2].stream = "stdout"
        /\ runs[k].chunks[1].bytes # runs[k].chunks[2].bytes

\* C17: when the pseudo-terminal process cannot be spawned, startSession
\* does not propagate the failure to its caller: the handler returns, an
\* exit event with a negative exit code has been published for the pane,
\* and no session and no tracked pid remain for the pane
StartRequests == { j \in 1..Len(ipc) : ipc[j].channel = "terminal:startSession" }
RunRequests == { j \in 1..Len(ipc) : ipc[j].channel = "terminal:runStructuredCommand" }
PaneOfRequest(j) == PaneOf(ipc[j].input.paneId.text)

C17_SpawnFailureIsAnExitEvent ==
    \A j \in StartRequests :
        ipc[j].spawned = "threw" =>
            LET p == PaneOfRequest(j)
            IN  /\ ipc[j].outcome = "returned"
                /\ \E n \in 1..Len(events[p]) : events[p][n].kind = "exit" /\ events[p][n].value[2] < 0
                /\ ~MapHas(sessions, p)
                /\ \A i \in 1..Len(procs) : procs[i].paneId = p => PidOf(i) \notin trackedPids

\* C18: the terminal:runStructuredCommand handler runs every valid command
\* exactly once, destructive or not, with the command, pane and shell it
\* was given; the record it returns is the block of that run, and it
\* carries the warning if and only if isDestructiveCommand(command)
ValidRun(input) == assertPaneId(input.paneId) /\ assertWorkspaceCwd(input.cwd) /\ assertCommand(input.command)

C18_RunsOnceAndAnnotates ==
    /\ Len(runs) = Cardinality({ j \in RunRequests : ipc[j].called })
    /\ \A j \in RunRequests, i \in RunRequests : (ipc[j].called /\ ipc[i].called /\ ipc[j].run = ipc[i].run) => j = i
    /\ \A j \in RunRequests :
          /\ ValidRun(ipc[j].input) =>
                /\ ipc[j].called
                /\ ipc[j].run \in 1..Len(runs)
                /\ runs[ipc[j].run].command = ipc[j].input.command.text
                /\ runs[ipc[j].run].paneId = PaneOfRequest(j)
                /\ runs[ipc[j].run].exec = (IF ipc[j].input.shell = "cmd" THEN "cmd.exe" ELSE "powershell.exe")
                /\ runs[ipc[j].run].promise = "resolved" => ipc[j].outcome \in {"pending", "returned"}
          /\ ipc[j].outcome = "returned" =>
                /\ Len(ipc[j].response) = 1
                /\ ipc[j].response[1].block = runs[ipc[j].run].block
                /\ ipc[j].response[1].block.completed
                /\ (ipc[j].response[1].warning # << >>) <=> isDestructiveCommand(ipc[j].input.command.text)

C18_Witness ==
    \E j \in RunRequests :
        /\ ipc[j].outcome = "returned"
        /\ isDestructiveCommand(ipc[j].input.command.text)
        /\ ipc[j].response[1].warning = << Warning >>
        /\ ipc[j].response[1].block.output # << >>
        /\ Len(runs) = 1

\* C19: the two handlers call the TerminalManager only when paneId is an
\* identifier (a string with a character that is not white space, of at
\* most MAX_PANE_ID_LENGTH characters, none of them NUL) and cwd is an
\* existing directory that is the rootDir of a known workspace or lies
\* under it; for any other input they throw, nothing is called and no
\* process is spawned
IsIdentifier(v) ==
    /\ v.type = "string"
    /\ \E i \in 1..Len(v.text) : ~IsSpace(v.text[i])
    /\ Len(v.text) <= MAX_PANE_ID_LENGTH
    /\ \A i \in 1..Len(v.text) : v.text[i] # NUL

Nested(rootDir, dir) ==
    LET r == Resolved(rootDir)
        d == Resolved(dir)
    IN  /\ ToLower(r.drive) = ToLower(d.drive)
        /\ Len(r.names) <= Len(d.names)
        /\ \A i \in 1..Len(r.names) : SameName(r.names[i], d.names[i])

InsideWorkspace(v) ==
    /\ v.type = "string"
    /\ \E d \in Directories, n \in 1..Len(Workspaces) : SamePath(d, v.text) /\ Nested(Workspaces[n].rootDir, d)

C19_OnlyValidReachTheManager ==
    /\ \A j \in 1..Len(ipc) :
          LET ok == IsIdentifier(ipc[j].input.paneId) /\ InsideWorkspace(ipc[j].input.cwd)
          IN  /\ ipc[j].called => ok
              /\ ~ok => (~ipc[j].called /\ ipc[j].outcome = "threw" /\ ipc[j].run = 0 /\ ipc[j].spawned = "none")
    /\ Len(runs) = Cardinality({ j \in RunRequests : ipc[j].called })
    /\ Len(procs) = Len(ProcsOf({1})) + Cardinality({ j \in StartRequests : ipc[j].called /\ ipc[j].spawned = "running" })

C19_Witness ==
    \E j \in 1..Len(ipc) :
        /\ IsIdentifier(ipc[j].input.paneId)
        /\ ipc[j].input.cwd = Str(<< "C", ":", "\\", "w", "\\", ".", ".", "\\", "w", "x" >>)
        /\ ipc[j].outcome = "threw"
        /\ ~ipc[j].called
        /\ runs = << >>
        /\ Len(procs) = Len(ProcsOf({1}))

\* C23: a session stays in the table until stopSession is called for its
\* pane, a later startSession replaces it, shutdown runs or its own process
\* exits: the entry of a pane leaves the table, or gives way to another
\* process, only in a step that kills or ends the entry's own process
C23_Step ==
    \A p \in Panes :
        MapHas(sessions, p) =>
            LET i == MapGet(sessions, p).proc
            IN  (~MapHas(sessions', p) \/ MapGet(sessions', p).proc # i) =>
                    (procs'[i].killed \/ procs'[i].state = "exited")

C23_SessionStays == [][C23_Step]_vars

\* C24: between operations, every process startSession spawned that has
\* not exited and has not been sent a termination signal is the process of
\* its pane's session and its pid is in the tracked set
C24_NoOrphan ==
    \A i \in 1..Len(procs) :
        (procs[i].state = "alive" /\ ~procs[i].killed) =>
            /\ MapHas(sessions, procs[i].paneId)
            /\ MapGet(sessions, procs[i].paneId).proc = i
            /\ PidOf(i) \in trackedPids

\* C25: a data event published for a pane with output of a session's
\* process is output of the session the pane has at that moment
C25_Step ==
    \A p \in Panes :
        (Len(events'[p]) = Len(events[p]) + 1 /\ events'[p][Len(events'[p])].kind = "data"
         /\ events'[p][Len(events'[p])].value[1] <= MaxSpawns) =>
            /\ MapHas(sessions, p)
            /\ MapGet(sessions, p).proc = events'[p][Len(events'[p])].value[1]

C25_DataOfCurrentSession == [][C25_Step]_vars

\* C26: executeInSession writes the command text (or its proxy) and the
\* line-submit token as two separate writes to the session's process, the
\* text first and the token second, and makes no other write
C26_TextThenSubmit ==
    (call.op = "executeInSession" /\ ~call.threw) =>
        /\ Len(call.io) = 2
        /\ call.io[1].kind = "write" /\ call.io[2].kind = "write"
        /\ call.io[1].proc = call.io[2].proc
        /\ call.io[1].data \in {call.arg, buildPowerShellProxyCommand(call.arg)}
        /\ call.io[2].data = << CR >>

\* a PowerShell session was given dir: the text, then the carriage return
C26_Witness ==
    /\ call.op = "executeInSession"
    /\ call.arg = << "d", "i", "r" >>
    /\ call.io = << Write(1, << "d", "i", "r" >>), Write(1, << CR >>) >>

\* C27: with forceSubmit executeInSession arms exactly one timer and
\* without it none; the timer's callback writes one line-submit token to
\* the pane's session, writes nothing when the pane has no session, and
\* never ends in an exception, whether or not the write is delivered
C27_Step ==
    \A p \in Panes :
        /\ \A forceSubmit \in BOOLEAN :
              (MapHas(sessions, p) /\ call'.op = "executeInSession" /\ ExecuteInSession(p, call'.arg, forceSubmit))
                  => timers'[p] = timers[p] + (IF forceSubmit THEN 1 ELSE 0)
        /\ (timers'[p] < timers[p]) =>
              /\ call'.op = "timer" /\ call'.paneId = p
              /\ timers'[p] = timers[p] - 1
              /\ ~call'.threw
              /\ ~MapHas(sessions, p) => call'.io = << >>
              /\ MapHas(sessions, p) => call'.io = << Write(MapGet(sessions, p).proc, << CR >>) >>

C27_TimerIsBestEffort == [][C27_Step]_vars

\* C28: a failure to signal one stale pid (no such process, permission
\* denied, any other error) does not end the sweep: every pid read from
\* the file that comes after it is still processed, so every running one
\* is signalled; initialize() goes on to persist the empty registry and
\* finishes with it on disk
C28_SweepGoesOn ==
    phase # "created" =>
        /\ \A k \in 1..Len(loaded) : staleStatus[loaded[k]] = "running" => loaded[k] \in signalled
        /\ signalled \subseteq SeqToSet(loaded)
        /\ phase = "initializing" =>
              \E r \in BagToSet(persists) : r.owner = "initialize"
        /\ phase \in {"initializing", "running"}
        /\ phase = "running" => pidFile = File(Payload({}))

\* the first pid failed with an unexpected error, the second was running
\* and was signalled, and initialize() has finished
C28_Witness ==
    /\ phase = "running"
    /\ Len(loaded) = 2
    /\ staleStatus[loaded[1]] = "error"
    /\ staleStatus[loaded[2]] = "running"
    /\ signalled = {loaded[2]}
    /\ pidFile = File(Payload({}))

\* C29: startSession, stopSession, sendInput, executeInSession, resize and
\* a process exit for pane p leave every other pane q as it was: its
\* session entry, its processes, the tracked pids of its processes and its
\* events; nothing is written to and no size is set on a process of q
OperationOn(p) ==
    \/ \E sh \in ShellTypes : StartSession(p, sh)
    \/ StopSession(p)
    \/ \E i \in 1..Len(procs), code \in ExitCodes : procs[i].paneId = p /\ ProcExit(i, code)
    \/ call' # call /\ call'.paneId = p

Untouched(q) ==
    /\ MapHas(sessions', q) <=> MapHas(sessions, q)
    /\ MapHas(sessions, q) => MapGet(sessions', q) = MapGet(sessions, q)
    /\ \A i \in 1..Len(procs) :
          procs[i].paneId = q =>
              /\ procs'[i] = procs[i]
              /\ (PidOf(i) \in trackedPids') <=> (PidOf(i) \in trackedPids)
    /\ \A i \in 1..Len(procs') : procs'[i].paneId = q => i <= Len(procs)
    /\ events'[q] = events[q]
    /\ timers'[q] = timers[q]
    /\ call' # call => \A n \in 1..Len(call'.io) : procs[call'.io[n].proc].paneId # q

C29_Step == \A p \in Panes : OperationOn(p) => \A q \in Panes \ {p} : Untouched(q)

C30_RunUntracked ==
    \A k \in 1..Len(runs) :
        /\ RunPid(k) \notin trackedPids
        /\ RunPid(k) \notin signalled
        /\ RunPid(k) \notin atShutdown
        /\ \A n \in 1..Len(pidFile.data) : pidFile.data[n] # Num(RunPid(k))
        /\ \A n \in 1..Len(tmpFile.data) : tmpFile.data[n] # Num(RunPid(k))
        /\ \A r \in BagToSet(persists) : \A n \in 1..Len(r.payload) : r.payload[n] # Num(RunPid(k))

C30_Step ==
    /\ runs' # runs =>
          /\ UNCHANGED << sessions, trackedPids, procs, persists, tmpFile, pidFile, phase, signalled >>
          /\ Len(runs') > Len(runs) =>
                LET r == runs'[Len(runs')]
                IN  /\ Len(runs') = Len(runs) + 1
                    /\ r.chunks = << >>
                    /\ r.block = [output |-> << >>, exitCode |-> << >>, completed |-> FALSE]
                    /\ r.promise = (IF r.spawned = "threw" THEN "rejected" ELSE "pending")
    /\ (sessions' # sessions \/ procs' # procs \/ phase' # phase) => runs' = runs

C30_BypassesTheTable == [](C30_RunUntracked) /\ [][C30_Step]_vars

\* a run on the pane with a session and a run on the pane without one have
\* ended alike, and then the controller shut down: the session's process
\* was killed, the table and the tracked set are empty
C30_Witness ==
    /\ Len(runs) = 2
    /\ runs[1].paneId = 1 /\ runs[2].paneId = 2
    /\ runs[1].block = runs[2].block
    /\ runs[1].block.completed
    /\ runs[1].block.output # << >>
    /\ phase = "shuttingDown"
    /\ procs[1].killed
    /\ sessions = << >>
    /\ trackedPids = {}

\* ======================================================== WorkspaceManager
\* A task of the board: id, status, order, createdAt, archived. An optional field
\* (order?: number, archived?: boolean) is << >> when it is missing and << v >> otherwise.
TASK_STATUSES == << "backlog", "in-progress", "done" >>

\* v ?? d
Coalesce(v, d) == IF v = << >> THEN d ELSE v[1]

\* the creation times of the model, as toISOString() writes them
Dates == << "2026-01-01T00:00:00.000Z", "2026-01-02T00:00:00.000Z" >>

\* new Date(iso).getTime(), in seconds: the model's dates are whole seconds
getTime(iso) ==
    CASE iso = "2026-01-01T00:00:00.000Z" -> 1767225600
      [] iso = "2026-01-02T00:00:00.000Z" -> 1767312000

\* the comparator normalizeTaskOrder sorts a column with
compareTasks(a, b) ==
    LET byOrder == Coalesce(a.order, 0) - Coalesce(b.order, 0)
    IN  IF byOrder # 0 THEN byOrder ELSE getTime(a.createdAt) - getTime(b.createdAt)

\* Array.prototype.sort is stable: a task goes behind every task that does not compare greater
\* the comparator task:move sorts the target column with
compareOrder(a, b) == Coalesce(a.order, 0) - Coalesce(b.order, 0)

\* Array.prototype.sort is stable: a task goes behind every task that does not compare greater
RECURSIVE InsertSorted(_, _, _)
InsertSorted(sorted, task, byTime) ==
    IF sorted = << >> THEN << task >>
    ELSE LET last == sorted[Len(sorted)]
             compared == IF byTime THEN compareTasks(last, task) ELSE compareOrder(last, task)
         IN  IF compared <= 0
             THEN Append(sorted, task)
             ELSE Append(InsertSorted(SubSeq(sorted, 1, Len(sorted) - 1), task, byTime), last)

RECURSIVE sort(_, _)
sort(tasks, byTime) ==
    IF tasks = << >> THEN << >>
    ELSE InsertSorted(sort(SubSeq(tasks, 1, Len(tasks) - 1), byTime), tasks[Len(tasks)], byTime)

\* byStatus[status] after the loop over the tasks
byStatus(tasks, status) == SelectSeq(tasks, LAMBDA task : task.status = status)

\* byStatus[task.status].push(task) throws a TypeError for a status that is no column
Pushes(tasks) == \A k \in 1..Len(tasks) : \E c \in 1..Len(TASK_STATUSES) : tasks[k].status = TASK_STATUSES[c]

\* a normalization that keeps the order values it is given
normalizeTaskOrder_KeepOrder(tasks) ==
    LET ordered(status) == sort(byStatus(tasks, status), TRUE)
    IN  ordered(TASK_STATUSES[1]) \o ordered(TASK_STATUSES[2]) \o ordered(TASK_STATUSES[3])

\* normalizeTaskOrder of WorkspaceManager.ts, and its copy in registerIpcHandlers.ts
normalizeTaskOrder(tasks) ==
    LET ordered(status) == sort(byStatus(tasks, status), TRUE)
        numbered(status) == [k \in 1..Len(ordered(status)) |-> [ordered(status)[k] EXCEPT !.order = << k >>]]
    IN  numbered(TASK_STATUSES[1]) \o numbered(TASK_STATUSES[2]) \o numbered(TASK_STATUSES[3])

normalizeTask(task) ==
    [task EXCEPT !.archived = << Coalesce(task.archived, FALSE) >>,
                 !.order = << Coalesce(task.order, 0) >>]

\* workspace.tasks.map(normalizeTask): what normalizeWorkspace hands to normalizeTaskOrder
NormalizedTasks(tasks) == [k \in 1..Len(tasks) |-> normalizeTask(tasks[k])]

normalizeWorkspace(workspace) ==
    [workspace EXCEPT !.tasks = normalizeTaskOrder(NormalizedTasks(workspace.tasks))]

\* workspaces.some((workspace) => workspace.id === id)
SomeWorkspace(workspaces, id) == \E k \in 1..Len(workspaces) : workspaces[k].id = id

\* workspaces[0]?.id ?? null
FirstId(workspaces) == IF workspaces = << >> THEN Null ELSE workspaces[1].id

\* a normalization that trusts the active id it is given
normalizePersistedState_KeepId(state) ==
    [ version |-> 1,
      activeWorkspaceId |-> state.activeWorkspaceId,
      workspaces |-> [k \in 1..Len(state.workspaces) |-> normalizeWorkspace(state.workspaces[k])] ]

normalizePersistedState(state) ==
    LET workspaces == [k \in 1..Len(state.workspaces) |-> normalizeWorkspace(state.workspaces[k])]
    IN  [ version |-> 1,
          activeWorkspaceId |-> IF SomeWorkspace(workspaces, state.activeWorkspaceId)
                                THEN state.activeWorkspaceId
                                ELSE FirstId(workspaces),
          workspaces |-> workspaces ]

\* normalizePersistedState throws when a workspace holds a task of an unknown status
Normalizes(state) == \A k \in 1..Len(state.workspaces) : Pushes(state.workspaces[k].tasks)

\* this.state
StateOf(m) == [version |-> 1, activeWorkspaceId |-> m.activeWorkspaceId, workspaces |-> m.workspaces]

\* JSON.stringify(this.state, null, 2), and a file JSON.parse gives up on
stringify(state) == [exists |-> TRUE, text |-> "json", value |-> state]
Garbled == [exists |-> TRUE, text |-> "{", value |-> NoFile.value]

\* the n-th value uuidv4() returns
Uuid(n) == << "u1", "u2", "u3", "u4" >>[n]

\* this.state.workspaces.findIndex((w) => w.id === id) + 1
findIndex(workspaces, id) ==
    IF SomeWorkspace(workspaces, id)
    THEN CHOOSE k \in 1..Len(workspaces) :
            /\ workspaces[k].id = id
            /\ \A j \in 1..(k - 1) : workspaces[j].id # id
    ELSE 0

\* persist(): the state file becomes the backup, the state is written over it
persist(m) ==
    [m EXCEPT !.backupPath = IF m.statePath.exists THEN m.statePath ELSE @,
              !.statePath = stringify(StateOf(m))]

\* loadState(pathToLoad) returns instead of throwing
Loads(file) ==
    /\ file.exists
    /\ file.text = "json"
    /\ file.value.version = 1
    /\ Normalizes(file.value)

loadState(file) == normalizePersistedState(file.value)

\* this.state = state
WithState(m, state, given) ==
    [m EXCEPT !.activeWorkspaceId = state.activeWorkspaceId, !.workspaces = state.workspaces, !.given = given]

\* the task lists of a state as normalizeWorkspace hands them to normalizeTaskOrder
GivenOf(state) == [k \in 1..Len(state.workspaces) |-> NormalizedTasks(state.workspaces[k].tasks)]

initialize(m) ==
    IF Loads(m.statePath)
    THEN WithState(m, normalizePersistedState(loadState(m.statePath)), GivenOf(m.statePath.value))
    ELSE IF Loads(m.backupPath)
         THEN persist(WithState(m, normalizePersistedState(loadState(m.backupPath)), GivenOf(m.backupPath.value)))
         ELSE persist(m)

create(m, name) ==
    persist([m EXCEPT !.workspaces = Append(@, [id |-> Uuid(m.uuids + 1), name |-> name, tasks |-> << >>]),
                      !.activeWorkspaceId = Uuid(m.uuids + 1),
                      !.uuids = @ + 1,
                      !.given = Append(@, << >>)])

clone(m, workspaceId, newName, now) ==
    LET index == findIndex(m.workspaces, workspaceId)
        normalizedSource == normalizeWorkspace(m.workspaces[index])
        tasks == [k \in 1..Len(normalizedSource.tasks) |->
                     [normalizedSource.tasks[k] EXCEPT !.id = Uuid(m.uuids + 1 + k), !.createdAt = now]]
    IN  IF index = 0 THEN m
        ELSE persist([m EXCEPT !.workspaces = Append(@, [id |-> Uuid(m.uuids + 1), name |-> newName, tasks |-> tasks]),
                               !.activeWorkspaceId = Uuid(m.uuids + 1),
                               !.uuids = @ + 1 + Len(tasks),
                               !.given = Append(@, tasks)])

rename(m, workspaceId, name) ==
    LET index == findIndex(m.workspaces, workspaceId)
    IN  IF index = 0 THEN m
        ELSE persist([m EXCEPT !.workspaces[index].name = name])

remove(m, workspaceId) ==
    LET kept == { k \in 1..Len(m.workspaces) : m.workspaces[k].id # workspaceId }
        Nth(n) == CHOOSE k \in kept : Cardinality({ j \in kept : j < k }) = n - 1
        workspaces == [n \in 1..Cardinality(kept) |-> m.workspaces[Nth(n)]]
    IN  persist([m EXCEPT !.workspaces = workspaces,
                          !.given = [n \in 1..Cardinality(kept) |-> m.given[Nth(n)]],
                          !.activeWorkspaceId = IF @ = workspaceId THEN FirstId(workspaces) ELSE @])

setActive(m, workspaceId) ==
    IF findIndex(m.workspaces, workspaceId) = 0 THEN m
    ELSE persist([m EXCEPT !.activeWorkspaceId = workspaceId])

save(m, workspace) ==
    LET index == findIndex(m.workspaces, workspace.id)
    IN  IF index = 0 \/ ~Pushes(workspace.tasks) THEN m
        ELSE persist([m EXCEPT !.workspaces[index] = normalizeWorkspace(workspace),
                               !.given[index] = NormalizedTasks(workspace.tasks)])

replaceState(m, nextState) ==
    IF ~Normalizes(nextState) THEN m
    ELSE persist(WithState(m, normalizePersistedState(nextState), GivenOf(nextState)))

\* ------------------------------------------------------ the task handlers
\* loadWorkspace(workspaceId) + 1, 0 when it throws
loadWorkspace(m, workspaceId) == findIndex(m.workspaces, workspaceId)

RECURSIVE MaxOrder(_)
MaxOrder(tasks) ==
    IF tasks = << >> THEN 0
    ELSE LET rest == MaxOrder(Tail(tasks))
             order == Coalesce(Head(tasks).order, 0)
         IN  IF order > rest THEN order ELSE rest

nextTaskOrder(tasks, status) == MaxOrder(byStatus(tasks, status)) + 1

\* saveWorkspace(nextWorkspace), where the handler made the tasks from the list `handed`
saveWorkspace(m, index, handed) ==
    LET saved == save(m, [m.workspaces[index] EXCEPT !.tasks = normalizeTaskOrder(handed)])
    IN  [saved EXCEPT !.given[index] = handed]

taskCreate(m, workspaceId, status, now) ==
    LET index == loadWorkspace(m, workspaceId)
        workspace == m.workspaces[index]
        task == [ id |-> Uuid(m.uuids + 1),
                  status |-> Coalesce(status, "backlog"),
                  order |-> << nextTaskOrder(workspace.tasks, Coalesce(status, "backlog")) >>,
                  createdAt |-> now,
                  archived |-> << FALSE >> ]
    IN  IF index = 0 THEN m
        ELSE saveWorkspace([m EXCEPT !.uuids = @ + 1], index, Append(workspace.tasks, task))

\* the checks of task:update on the order of the patch
ValidPatch(patch) == patch.order = << >> \/ patch.order[1] >= 1

taskUpdate(m, workspaceId, taskId, patch) ==
    LET index == loadWorkspace(m, workspaceId)
        workspace == m.workspaces[index]
        nextTask(task) ==
            LET nextStatus == Coalesce(patch.status, task.status)
            IN  [task EXCEPT !.status = nextStatus,
                             !.archived = << Coalesce(patch.archived, Coalesce(task.archived, FALSE)) >>,
                             !.order = IF patch.order # << >> THEN patch.order
                                       ELSE IF patch.status # << >> /\ patch.status[1] # task.status
                                            THEN << nextTaskOrder(workspace.tasks, nextStatus) >>
                                            ELSE task.order]
        updatedTasks == [k \in 1..Len(workspace.tasks) |->
                            IF workspace.tasks[k].id # taskId THEN workspace.tasks[k]
                            ELSE nextTask(workspace.tasks[k])]
    IN  IF ~ValidPatch(patch) \/ index = 0 THEN m
        ELSE IF \A k \in 1..Len(workspace.tasks) : workspace.tasks[k].id # taskId THEN m
        ELSE saveWorkspace(m, index, updatedTasks)

taskDelete(m, workspaceId, taskId) ==
    LET index == loadWorkspace(m, workspaceId)
        workspace == m.workspaces[index]
    IN  IF index = 0 THEN m
        ELSE IF \A k \in 1..Len(workspace.tasks) : workspace.tasks[k].id # taskId THEN m
        ELSE saveWorkspace(m, index, SelectSeq(workspace.tasks, LAMBDA task : task.id # taskId))

\* withoutMoving.splice(clampedIndex, 0, moving)
splice(array, start, item) ==
    SubSeq(array, 1, start) \o << item >> \o SubSeq(array, start + 1, Len(array))

taskMove(m, workspaceId, taskId, toStatus, toIndex) ==
    LET index == loadWorkspace(m, workspaceId)
        workspace == m.workspaces[index]
        movedBase == [k \in 1..Len(workspace.tasks) |->
                         IF workspace.tasks[k].id = taskId
                         THEN [workspace.tasks[k] EXCEPT !.status = toStatus]
                         ELSE workspace.tasks[k]]
        inStatus == sort(byStatus(movedBase, toStatus), FALSE)
        moving == inStatus[CHOOSE k \in 1..Len(inStatus) :
                              inStatus[k].id = taskId /\ \A j \in 1..(k - 1) : inStatus[j].id # taskId]
        withoutMoving == SelectSeq(inStatus, LAMBDA task : task.id # taskId)
        clampedIndex == IF toIndex < Len(withoutMoving) THEN toIndex ELSE Len(withoutMoving)
        ranked == splice(withoutMoving, clampedIndex, moving)
        \* rank.get(task.id) ?? task.order: the last index set for an id stays
        rank(task) ==
            IF \E k \in 1..Len(ranked) : ranked[k].id = task.id
            THEN << CHOOSE k \in 1..Len(ranked) :
                       ranked[k].id = task.id /\ \A j \in (k + 1)..Len(ranked) : ranked[j].id # task.id >>
            ELSE task.order
    IN  IF index = 0 THEN m
        ELSE IF \A k \in 1..Len(workspace.tasks) : workspace.tasks[k].id # taskId THEN m
        ELSE saveWorkspace(m, index,
                 [k \in 1..Len(movedBase) |->
                     IF movedBase[k].status = toStatus
                     THEN [movedBase[k] EXCEPT !.order = rank(movedBase[k])]
                     ELSE movedBase[k]])

taskArchive(m, workspaceId, taskId, archived) ==
    LET index == loadWorkspace(m, workspaceId)
        workspace == m.workspaces[index]
    IN  IF index = 0 THEN m
        ELSE saveWorkspace(m, index,
                 [k \in 1..Len(workspace.tasks) |->
                     IF workspace.tasks[k].id = taskId
                     THEN [workspace.tasks[k] EXCEPT !.archived = << Coalesce(archived, TRUE) >>]
                     ELSE workspace.tasks[k]])

\* ------------------------------------------ the manager as a state machine
\* what the workspace operations leave alone
terminal == << termVars, call, timers, runs, ipc >>

\* the ids of the workspaces and of the tasks in the state
WorkspaceIdsOf(m) == { m.workspaces[k].id : k \in 1..Len(m.workspaces) }
TaskIdsOf(m) == UNION { { m.workspaces[k].tasks[j].id : j \in 1..Len(m.workspaces[k].tasks) } : k \in 1..Len(m.workspaces) }

\* the application starts (again): new WorkspaceManager(userDataDir), then initialize()
WmInitialize ==
    /\ wm' = initialize([WorkspaceManager(wm.statePath, wm.backupPath) EXCEPT !.uuids = wm.uuids])
    /\ UNCHANGED terminal

WmCreate(name) ==
    /\ Len(wm.workspaces) < MaxWorkspaces
    /\ wm.uuids < MaxUuids
    /\ wm' = create(wm, name)
    /\ UNCHANGED terminal

WmClone(workspaceId, newName, now) ==
    /\ Len(wm.workspaces) < MaxWorkspaces
    /\ \A k \in 1..Len(wm.workspaces) : wm.uuids + 1 + Len(wm.workspaces[k].tasks) <= MaxUuids
    /\ wm' = clone(wm, workspaceId, newName, now)
    /\ UNCHANGED terminal

WmRename(workspaceId, name) ==
    /\ wm' = rename(wm, workspaceId, name)
    /\ UNCHANGED terminal

WmRemove(workspaceId) ==
    /\ wm' = remove(wm, workspaceId)
    /\ UNCHANGED terminal

WmSetActive(workspaceId) ==
    /\ wm' = setActive(wm, workspaceId)
    /\ UNCHANGED terminal

WmSave(workspace) ==
    /\ wm' = save(wm, workspace)
    /\ UNCHANGED terminal

WmReplaceState(nextState) ==
    /\ wm' = replaceState(wm, nextState)
    /\ UNCHANGED terminal

TaskCreate(workspaceId, status, now) ==
    /\ wm.uuids < MaxUuids
    /\ \A k \in 1..Len(wm.workspaces) : Len(wm.workspaces[k].tasks) < MaxTasks
    /\ wm' = taskCreate(wm, workspaceId, status, now)
    /\ UNCHANGED terminal

TaskUpdate(workspaceId, taskId, patch) ==
    /\ wm' = taskUpdate(wm, workspaceId, taskId, patch)
    /\ UNCHANGED terminal

TaskDelete(workspaceId, taskId) ==
    /\ wm' = taskDelete(wm, workspaceId, taskId)
    /\ UNCHANGED terminal

TaskMove(workspaceId, taskId, toStatus, toIndex) ==
    /\ wm' = taskMove(wm, workspaceId, taskId, toStatus, toIndex)
    /\ UNCHANGED terminal

TaskArchive(workspaceId, taskId, archived) ==
    /\ wm' = taskArchive(wm, workspaceId, taskId, archived)
    /\ UNCHANGED terminal

\* the terminal side at rest, over a user data directory that holds these two files
InitWm(stateFile, backupFile) ==
    /\ phase = "created"
    /\ sessions = << >>
    /\ trackedPids = {}
    /\ procs = << >>
    /\ events = [p \in Panes |-> << >>]
    /\ exitLast = [p \in Panes |-> FALSE]
    /\ persists = EmptyBag
    /\ tmpFile = Absent
    /\ pidFile = Absent
    /\ unhandled = FALSE
    /\ staleStatus = [q \in StalePids |-> "gone"]
    /\ swept = {}
    /\ signalled = {}
    /\ atShutdown = {}
    /\ loaded = << >>
    /\ call = NoCall
    /\ timers = [p \in Panes |-> 0]
    /\ runs = << >>
    /\ ipc = << >>
    /\ wm = WorkspaceManager(stateFile, backupFile)

\* an id no workspace carries
Missing == "missing-workspace"

\* -------- the workspace list
WorkspaceNames == { "n1", "n2" }

\* a task as a state file of an earlier version holds it: no order, no archived flag
LegacyTask(id, status, createdAt) ==
    [id |-> id, status |-> status, order |-> << >>, createdAt |-> createdAt, archived |-> << >>]

ListedWorkspaces ==
    { [id |-> "a", name |-> "n1", tasks |-> << >>],
      [id |-> "a", name |-> "n1", tasks |-> << LegacyTask("t1", "backlog", Dates[1]) >>],
      [id |-> "b", name |-> "n1", tasks |-> << >>] }

ListedStates ==
    { [version |-> 1, activeWorkspaceId |-> active, workspaces |-> workspaces] :
        active \in { Null, "a", "b", Missing },
        workspaces \in SeqsUpTo(ListedWorkspaces, MaxWorkspaces) }

ListedFiles ==
    { NoFile, Garbled } \cup { stringify(state) : state \in ListedStates }
      \cup { stringify([state EXCEPT !.version = 2]) : state \in ListedStates }

InitWorkspaces ==
    \E stateFile \in ListedFiles, backupFile \in { NoFile, Garbled, stringify([version |-> 1, activeWorkspaceId |-> Missing, workspaces |-> << [id |-> "b", name |-> "n1", tasks |-> << >>] >>]) } :
        InitWm(stateFile, backupFile)

NextWorkspaces ==
    \/ WmInitialize
    \/ \E name \in WorkspaceNames : WmCreate(name)
    \/ \E workspaceId \in WorkspaceIdsOf(wm) \cup { Missing }, name \in WorkspaceNames :
          WmClone(workspaceId, name, Dates[2])
    \/ \E workspaceId \in WorkspaceIdsOf(wm) \cup { Missing }, name \in WorkspaceNames :
          WmRename(workspaceId, name)
    \/ \E workspaceId \in WorkspaceIdsOf(wm) \cup { Missing } : WmRemove(workspaceId)
    \/ \E workspaceId \in WorkspaceIdsOf(wm) \cup { Missing } : WmSetActive(workspaceId)
    \/ \E workspace \in ListedWorkspaces \cup { [id |-> Missing, name |-> "n1", tasks |-> << >>] } :
          WmSave(workspace)
    \/ \E nextState \in ListedStates : WmReplaceState(nextState)

SpecWorkspaces == InitWorkspaces /\ [][NextWorkspaces]_vars

\* -------- the task board of one workspace
\* the k-th task of a list the renderer or a file hands over
TaskIds == << "t1", "t2", "t3" >>

\* order values as a file or the renderer may carry them: none, tied, with gaps
GivenOrders == { << >>, << 1 >>, << 5 >> }

\* in a stored list the later task is the older one
GivenTasks(k) ==
    { [id |-> TaskIds[k], status |-> status, order |-> order, createdAt |-> Dates[3 - k], archived |-> << >>] :
        status \in { "backlog", "done" }, order \in GivenOrders }

\* the task lists a state file holds
StoredLists ==
    { << >> } \cup { << t1 >> : t1 \in GivenTasks(1) }
      \cup { << t1, t2 >> : t1 \in GivenTasks(1), t2 \in GivenTasks(2) }

\* the task lists save and replaceState are handed: the later task is the older one
SavedLists ==
    { << >> }
      \cup { << [id |-> "t1", status |-> "done", order |-> o1, createdAt |-> Dates[2], archived |-> << >>],
                [id |-> "t2", status |-> status, order |-> o2, createdAt |-> Dates[1], archived |-> << >>] >> :
                 o1 \in { << 9 >>, << 1 >> }, o2 \in { << >>, << 1 >> }, status \in { "done", "todo" } }

Board(tasks) == [id |-> "a", name |-> "n1", tasks |-> tasks]

BoardState(tasks) == [version |-> 1, activeWorkspaceId |-> "a", workspaces |-> << Board(tasks) >>]

InitTasks ==
    \E tasks \in StoredLists, backupFile \in { NoFile, stringify(BoardState(<< LegacyTask("t1", "done", Dates[1]) >>)) } :
        \/ InitWm(stringify(BoardState(tasks)), backupFile)
        \/ tasks = << >> /\ InitWm(Garbled, backupFile)

\* what the renderer may send with task:update
Patches ==
    { [status |-> status, order |-> order, archived |-> << >>] :
        status \in { << >>, << "done" >> }, order \in { << >>, << 0 >>, << 2 >> } }

NextTasks ==
    \/ WmInitialize
    \/ \E tasks \in SavedLists : WmSave(Board(tasks))
    \/ \E tasks \in SavedLists : WmReplaceState(BoardState(tasks))
    \/ \E workspaceId \in { "a", Missing }, status \in { << >>, << "done" >> } :
          TaskCreate(workspaceId, status, Dates[2])
    \/ \E taskId \in TaskIdsOf(wm), patch \in Patches : TaskUpdate("a", taskId, patch)
    \/ \E taskId \in TaskIdsOf(wm) \cup { Missing } : TaskDelete("a", taskId)
    \/ \E taskId \in TaskIdsOf(wm) \cup { Missing }, toStatus \in { "backlog", "in-progress", "done" }, toIndex \in { 0, 1 } :
          TaskMove("a", taskId, toStatus, toIndex)
    \/ \E archived \in { << >>, << FALSE >> } : TaskArchive("a", "t1", archived)

SpecTasks == InitTasks /\ [][NextTasks]_vars

\* ------------------------------------------------------------------ C21
\* activeWorkspaceId is null when the list is empty, else the id of a listed workspace
ActiveIsListed(m) ==
    IF m.workspaces = << >>
    THEN m.activeWorkspaceId = Null
    ELSE SomeWorkspace(m.workspaces, m.activeWorkspaceId)

\* a state whose active id matches none of its workspaces
Unlisted(state) ==
    /\ state.workspaces # << >>
    /\ ~SomeWorkspace(state.workspaces, state.activeWorkspaceId)

UnlistedStates == { state \in ListedStates : Unlisted(state) }

\* replaceState and initialize turn an active id that matches no workspace into the id of
\* the first workspace
C21_Step ==
    /\ \A nextState \in UnlistedStates :
          \/ wm'.activeWorkspaceId = nextState.workspaces[1].id
          \/ Len(wm'.workspaces) # Len(nextState.workspaces)
          \/ wm' # replaceState(wm, nextState)
    /\ LET started == [WorkspaceManager(wm.statePath, wm.backupPath) EXCEPT !.uuids = wm.uuids]
           file == IF Loads(wm.statePath) THEN wm.statePath ELSE wm.backupPath
       IN  (Loads(file) /\ Unlisted(file.value) /\ wm' = initialize(started))
              => wm'.activeWorkspaceId = file.value.workspaces[1].id

\* C21: after any sequence of WorkspaceManager operations (initialize, create, clone,
\* rename, remove, setActive, save, replaceState) activeWorkspaceId is null only when the
\* workspace list is empty and is otherwise the id of a workspace in the list; replaceState
\* and a load from disk repair an id that matches no workspace to the first workspace.
C21_ActiveIsListed ==
    /\ [](ActiveIsListed(wm) /\ (wm.activeWorkspaceId = Null => wm.workspaces = << >>))
    /\ [][C21_Step]_vars

\* a state file that named a missing workspace was loaded, and the first of its two
\* workspaces is the active one
C21_Witness ==
    /\ wm.statePath.text = "json"
    /\ wm.statePath.value.activeWorkspaceId = Missing
    /\ Len(wm.workspaces) = 2
    /\ wm.activeWorkspaceId = wm.workspaces[1].id

\* ------------------------------------------------------------------ C22
\* the order values of a status column are exactly 1..n
OrdersExact(tasks) ==
    \A c \in 1..Len(TASK_STATUSES) :
        LET column == byStatus(tasks, TASK_STATUSES[c])
        IN  /\ \A k \in 1..Len(column) : column[k].order # << >>
            /\ { Coalesce(column[k].order, 0) : k \in 1..Len(column) } = 1..Len(column)
            /\ \A j, k \in 1..Len(column) : j # k => column[j].order # column[k].order

\* the order value the task with this id carries
OrderOf(tasks, id) == (CHOOSE task \in { tasks[k] : k \in 1..Len(tasks) } : task.id = id).order[1]

\* the tasks are those of the list they were normalized from, and two of one column that
\* differ in their previous order, or tie in it and differ in creation time, are ranked so
Ranked(given, tasks) ==
    /\ Len(tasks) = Len(given)
    /\ \A a \in 1..Len(given) :
          \E k \in 1..Len(tasks) : tasks[k] = [given[a] EXCEPT !.order = tasks[k].order]
    /\ \A a, b \in 1..Len(given) :
          (given[a].status = given[b].status /\ compareTasks(given[a], given[b]) < 0)
              => OrderOf(tasks, given[a].id) < OrderOf(tasks, given[b].id)

====
